---- MODULE Spec2Model ----
(***************************************************************************)
(* State-machine model of the bulk-load engine of SupabaseBulkClient       *)
(* (src/src/bulk-replicator.js): the multi-table orchestrator              *)
(* replicateTables, the streaming load importCSVWithCOPY, the batched load *)
(* replicateTable / insertDataInBatches, table creation and verification,  *)
(* and the destination store they talk to.                                 *)
(*                                                                         *)
(* Every await of the code is one action.  What the destination answers    *)
(* is computed from the destination's state; what the network does         *)
(* (a call that fails or throws) is drawn with \E from small sets.         *)
(***************************************************************************)
EXTENDS Integers, Sequences, FiniteSets, TLC

\* ------------------------------------------------------------------------
\* Bounds of the model
\* ------------------------------------------------------------------------
MaxTables == 2
MaxRetryCount == 2
MaxFullBatches == 2
MaxRemainder == 1
MaxCopyRecords == 1
MaxExternalWrites == 1

\* ------------------------------------------------------------------------
\* Program constants
\* ------------------------------------------------------------------------
\* replicateTable passes 25 as insertDataInBatches' batchSize
BatchSize == 25
\* replicateTable passes 5 as verifyTableExistsWithRetry's maxRetries
VerifyMaxRetries == 5
\* createTable's RPC loop: for (attempt = 1; attempt <= 3; attempt++)
CreateMaxAttempts == 3

\* columns every created table gets besides the headers
SystemColumns == {"id", "created_at", "updated_at"}

\* ------------------------------------------------------------------------
\* Inputs
\* ------------------------------------------------------------------------
TableNames == 1..MaxTables

\* the normalized header sets a CSV text may carry
HeaderSets == {{"a"}, {"a", "b"}, {"a", "id"}}

\* record counts of a CSV text.  The batched load is given counts around the
\* batch boundaries (full batches plus a remainder); the streaming load,
\* which never splits the records, is given 0..MaxCopyRecords
BatchRecordCounts == {f * BatchSize + r : f \in 0..MaxFullBatches, r \in 0..MaxRemainder}
CopyRecordCounts == 0..MaxCopyRecords

RecordCounts(entry) ==
    IF entry \in {"replicateTables", "importCSVWithCOPY"}
    THEN CopyRecordCounts ELSE BatchRecordCounts

\* a value handed in as csvData: a string that parses to (headers, data),
\* or a value that is no string (split is not a function of it)
CsvInputs(entry) ==
    {[isString |-> FALSE, headers |-> {}, records |-> 0]}
    \cup {[isString |-> TRUE, headers |-> h, records |-> n] :
            h \in HeaderSets, n \in RecordCounts(entry)}

\* ------------------------------------------------------------------------
\* Destination error objects: a code and a message, the message a sequence
\* of words so that message.includes(...) is a search and not a flag
\* ------------------------------------------------------------------------
DoesNotExist == <<"does", "not", "exist">>

ErrRelationMissing ==
    [code |-> "42P01", message |-> <<"relation", "does", "not", "exist">>]
ErrColumnMissing ==
    [code |-> "42703", message |-> <<"column", "of", "relation", "does", "not", "exist">>]
ErrColumnNotCached ==
    [code |-> "PGRST204", message |-> <<"could", "not", "find", "column", "in", "schema", "cache">>]
ErrInvalidInput ==
    [code |-> "22P02", message |-> <<"invalid", "input", "syntax">>]
ErrFunctionMissing ==
    [code |-> "42883", message |-> <<"function", "exec_sql", "does", "not", "exist">>]
ErrNetwork ==
    [code |-> "503", message |-> <<"service", "unavailable">>]

\* String.prototype.includes on a message
Includes(message, words) ==
    \E k \in 1..(Len(message) - Len(words) + 1) :
        SubSeq(message, k, k + Len(words) - 1) = words

\* ------------------------------------------------------------------------
\* The destination store.  A table is a record: whether it exists, its
\* columns, its rows (those present when the current load began, and those
\* written since), and whether the REST layer's schema cache knows it.
\* ------------------------------------------------------------------------
Absent == [exists |-> FALSE, cols |-> {}, old |-> 0, new |-> 0, cached |-> FALSE]

\* a table left by an earlier run: one column the new headers lack, one row
Existing == [exists |-> TRUE, cols |-> {"a", "z"} \cup SystemColumns,
             old |-> 1, new |-> 0, cached |-> TRUE]

\* CREATE TABLE "t" (id SERIAL PRIMARY KEY, <headers> TEXT, created_at, updated_at)
CreateTableFails(d, hs) == d.exists \/ hs \cap SystemColumns # {}
CreatedTable(hs) ==
    [exists |-> TRUE, cols |-> hs \cup SystemColumns, old |-> 0, new |-> 0, cached |-> FALSE]

\* ALTER TABLE "t" ADD COLUMN "c" TEXT
AddColumnFails(d, c) == ~d.exists \/ c \in d.cols
AddColumn(d, c) == [d EXCEPT !.cols = @ \cup {c}]

\* TRUNCATE TABLE "t"
TruncateFails(d) == ~d.exists
Truncated(d) == [d EXCEPT !.old = 0, !.new = 0]

\* COPY "t" (<headers>) FROM STDIN
CopyFails(d, hs) == ~d.exists \/ ~(hs \subseteq d.cols)
Copied(d, n) == [d EXCEPT !.new = @ + n]

\* SELECT COUNT(*) FROM "t"
RowCount(d) == d.old + d.new

\* what the REST layer sees
RestVisible(d) == d.exists /\ d.cached

\* the error of a REST insert of rows with the given keys, or NoError
NoError == [code |-> "", message |-> <<>>]
InsertErrors(d, keys) ==
    IF ~RestVisible(d) THEN {ErrRelationMissing}
    ELSE IF ~(keys \subseteq d.cols) THEN {ErrColumnMissing, ErrColumnNotCached}
    ELSE {NoError}

\* ------------------------------------------------------------------------
\* State
\* ------------------------------------------------------------------------
VARIABLES
    cfg,            \* the call: entry point, options, whether pgPool is set
    dest,           \* destination store: table name -> table
    pc,             \* position of the (single-threaded) process
    tableName,      \* table of the current load
    csv,            \* csvData of the current table
    ti,             \* replicateTables: index of the current map entry
    attempts,       \* replicateTables: attempts
    lastResult,     \* replicateTables: lastResult
    results,        \* replicateTables: results
    headers,        \* parsed (normalized) headers of the current load
    data,           \* number of parsed records of the current load
    client,         \* importCSVWithCOPY: a pool client is held
    missingColumns, \* importCSVWithCOPY: columns still to add
    attempt,        \* createTable / verifyTableExistsWithRetry: attempt
    tableResult,    \* replicateTable: tableResult
    i,              \* insertDataInBatches: offset of the next batch
    totalInserted,  \* insertDataInBatches: totalInserted
    errors,         \* insertDataInBatches: errors
    insertResult,   \* replicateTable: insertResult
    ret,            \* what the entry point returned
    thrown,         \* the entry point ended with an exception
    log,            \* history: batches submitted by the current batched load
    attemptLog,     \* history: results of the attempts for the current table
    hist,           \* history of the current load's schema step
    extWrites       \* number of rows written by other writers so far

vars == <<cfg, dest, pc, tableName, csv, ti, attempts, lastResult, results,
          headers, data, client, missingColumns, attempt, tableResult, i,
          totalInserted, errors, insertResult, ret, thrown, log, attemptLog,
          hist, extWrites>>

orchVars == <<ti, attempts, lastResult, results, attemptLog>>
copyVars == <<client, missingColumns>>
batchVars == <<i, totalInserted, errors, insertResult, log>>
createVars == <<attempt, tableResult>>
outVars == <<ret, thrown>>

\* JavaScript null / not yet assigned
Null == [isNull |-> TRUE]

\* a field of a result object that may lack it (undefined)
Has(r, f) == f \in DOMAIN r
Truthy(r, f) == Has(r, f) /\ r[f] = TRUE

NoHist == [existed |-> FALSE, colsBefore |-> {}, dropped |-> FALSE,
           created |-> FALSE, truncated |-> FALSE, added |-> {},
           verified |-> FALSE, checks |-> 0]

\* the state of the schema-step history when a load of table t begins; the
\* rows then present become the rows "from before this load"
StartHist(d) == [NoHist EXCEPT !.existed = d.exists, !.colsBefore = d.cols]
StartDest(d) == [d EXCEPT !.old = d.old + d.new, !.new = 0]

\* the calls the model makes: replicateTables over 0..MaxTables map entries
\* (replicateTableEnhanced leaves preserveViews at its default, true), and each
\* public load method called on its own for table 1
Configs ==
    {[entry |-> "replicateTables", preserveViews |-> TRUE, retryCount |-> r,
      tables |-> n, pgPool |-> p] :
        r \in 0..MaxRetryCount, n \in 0..MaxTables, p \in BOOLEAN}
    \cup {[entry |-> "importCSVWithCOPY", preserveViews |-> v, retryCount |-> 1,
           tables |-> 1, pgPool |-> p] : v \in BOOLEAN, p \in BOOLEAN}
    \cup {[entry |-> "replicateTable", preserveViews |-> v, retryCount |-> 1,
           tables |-> 1, pgPool |-> TRUE] : v \in BOOLEAN}
    \cup {[entry |-> "insertDataInBatches", preserveViews |-> FALSE, retryCount |-> 1,
           tables |-> 1, pgPool |-> TRUE]}

NoCsv == [isString |-> FALSE, headers |-> {}, records |-> 0]

EntryPc(e) ==
    CASE e = "replicateTables" -> "rt_for"
      [] e = "importCSVWithCOPY" -> "copy_pool"
      [] e = "replicateTable" -> "rep_parse"
      [] e = "insertDataInBatches" -> "insert"

Init ==
    /\ cfg \in Configs
    /\ dest \in [TableNames -> {Absent, Existing}]
    /\ \A t \in TableNames : t > cfg.tables => dest[t] = Absent
    /\ pc = EntryPc(cfg.entry)
    /\ tableName = 1
    /\ csv \in (IF cfg.entry = "replicateTables" THEN {NoCsv} ELSE CsvInputs(cfg.entry))
    /\ cfg.entry = "insertDataInBatches" => csv.isString
    /\ ti = 0
    /\ attempts = 0
    /\ lastResult = Null
    /\ results = [success |-> <<>>, failed |-> <<>>, totalRecords |-> 0]
    \* insertDataInBatches called on its own takes the records themselves
    /\ headers = IF cfg.entry = "insertDataInBatches" /\ csv.records > 0
                 THEN csv.headers ELSE {}
    /\ data = IF cfg.entry = "insertDataInBatches" THEN csv.records ELSE 0
    /\ client = FALSE
    /\ missingColumns = {}
    /\ attempt = 0
    /\ tableResult = Null
    /\ i = 0
    /\ totalInserted = 0
    /\ errors = <<>>
    /\ insertResult = Null
    /\ ret = Null
    /\ thrown = FALSE
    /\ log = <<>>
    /\ attemptLog = <<>>
    /\ hist = IF cfg.entry = "replicateTables" THEN NoHist ELSE StartHist(dest[1])
    /\ extWrites = 0

\* ------------------------------------------------------------------------
\* How a load ends
\* ------------------------------------------------------------------------
\* the load returns r to its caller
LoadReturns(r) ==
    IF cfg.entry = "replicateTables"
    THEN /\ lastResult' = r
         /\ attemptLog' = Append(attemptLog, r)
         /\ pc' = "rt_after"
         /\ UNCHANGED <<ti, attempts, results, ret, thrown>>
    ELSE /\ ret' = r
         /\ pc' = "done"
         /\ UNCHANGED <<orchVars, thrown>>

\* the load throws: replicateTableEnhanced rethrows, and replicateTables has
\* no try around its call
LoadThrows ==
    /\ pc' = "done"
    /\ thrown' = TRUE
    /\ UNCHANGED <<orchVars, ret>>

\* ------------------------------------------------------------------------
\* replicateTables
\* ------------------------------------------------------------------------
\* while (attempts < retryCount)
MoreAttempts(a, retryCount) == a < retryCount

\* if (lastResult.success || lastResult.partialSuccess) break;
StopsRetryingNever(r) == FALSE
StopsRetrying(r) == Truthy(r, "success") \/ Truthy(r, "partialSuccess")

\* for (const [tableName, csvData] of Object.entries(tableDataMap))
ReplicateTables_ForEach ==
    /\ pc = "rt_for"
    /\ ti < cfg.tables
    /\ ti' = ti + 1
    /\ tableName' = ti + 1
    /\ \E c \in CsvInputs(cfg.entry) : csv' = c
    /\ attempts' = 0
    /\ lastResult' = Null
    /\ attemptLog' = <<>>
    /\ pc' = "rt_while"
    /\ UNCHANGED <<cfg, dest, results, headers, data, copyVars, createVars,
                   batchVars, outVars, hist, extWrites>>

\* one turn of the retry loop: the next attempt, or the loop's exit
ReplicateTables_Attempt ==
    /\ pc = "rt_while"
    /\ IF MoreAttempts(attempts, cfg.retryCount)
       THEN /\ attempts' = attempts + 1
            /\ pc' = "copy_pool"
            /\ hist' = StartHist(dest[tableName])
            /\ dest' = [dest EXCEPT ![tableName] = StartDest(@)]
       ELSE /\ pc' = "rt_categorize"
            /\ UNCHANGED <<attempts, hist, dest>>
    /\ UNCHANGED <<cfg, tableName, csv, ti, lastResult, results, attemptLog,
                   headers, data, copyVars, createVars, batchVars, outVars, extWrites>>

\* after replicateTableEnhanced returned: break, or wait and loop
ReplicateTables_AfterAttempt ==
    /\ pc = "rt_after"
    /\ pc' = IF StopsRetrying(lastResult) THEN "rt_categorize" ELSE "rt_while"
    /\ UNCHANGED <<cfg, dest, tableName, csv, orchVars, headers, data, copyVars,
                   createVars, batchVars, outVars, hist, extWrites>>

\* Categorize results; lastResult is still null when no attempt was made,
\* and lastResult.success is then a TypeError
ReplicateTables_Categorize ==
    /\ pc = "rt_categorize"
    /\ IF lastResult = Null
       THEN /\ pc' = "done"
            /\ thrown' = TRUE
            /\ UNCHANGED results
       ELSE /\ pc' = "rt_for"
            /\ UNCHANGED thrown
            /\ results' =
                 IF Truthy(lastResult, "success") \/ Truthy(lastResult, "partialSuccess")
                 THEN [results EXCEPT
                         !.success = Append(@, lastResult),
                         !.totalRecords =
                             @ + (IF Has(lastResult, "inserted") THEN lastResult.inserted ELSE 0)]
                 ELSE [results EXCEPT !.failed = Append(@, lastResult)]
    /\ UNCHANGED <<cfg, dest, tableName, csv, ti, attempts, lastResult, attemptLog,
                   headers, data, copyVars, createVars, batchVars, ret, hist, extWrites>>

\* return results
ReplicateTables_Return ==
    /\ pc = "rt_for"
    /\ ti >= cfg.tables
    /\ pc' = "done"
    /\ ret' = results
    /\ UNCHANGED <<cfg, dest, tableName, csv, orchVars, headers, data, copyVars,
                   createVars, batchVars, thrown, hist, extWrites>>

\* ------------------------------------------------------------------------
\* importCSVWithCOPY (reached from replicateTables through
\* replicateTableEnhanced, or called on its own)
\* ------------------------------------------------------------------------
\* a statement on the pg connection either completes or rejects (throws)
PgOutcomes == {"ok", "throw"}

\* Math.round(100 * part / whole) for non-negative part and positive whole
RoundPercent(part, whole) == (200 * part + whole) \div (2 * whole)

\* const success = importedCount === data.length
CopySuccessLax(importedCount, n) == importedCount >= n
CopySuccess(importedCount, n) == importedCount = n

CopyResult(t, importedCount, n) ==
    [success |-> CopySuccess(importedCount, n), tableName |-> t, records |-> n,
     inserted |-> importedCount, failed |-> n - importedCount,
     successRate |-> RoundPercent(importedCount, n), method |-> "copy"]

\* finally { client.release() } and the outer catch's rethrow
CopyThrows ==
    /\ client' = FALSE
    /\ LoadThrows

\* if (!this.pgPool) throw
CopyPoolCheck ==
    /\ pc = "copy_pool"
    /\ IF cfg.pgPool
       THEN pc' = "copy_test" /\ UNCHANGED <<orchVars, outVars>>
       ELSE LoadThrows
    /\ UNCHANGED <<cfg, dest, tableName, csv, headers, data, copyVars, createVars,
                   batchVars, hist, extWrites>>

\* Test connection first: connect, SELECT 1, release
CopyTestConnection ==
    /\ pc = "copy_test"
    /\ \E o \in PgOutcomes :
         IF o = "ok"
         THEN pc' = "copy_parse" /\ UNCHANGED <<orchVars, outVars>>
         ELSE LoadThrows
    /\ UNCHANGED <<cfg, dest, tableName, csv, headers, data, copyVars, createVars,
                   batchVars, hist, extWrites>>

\* parseCSVData, the empty-data return, cleanColumnName and cleanHeaders
CopyParse ==
    /\ pc = "copy_parse"
    /\ IF ~csv.isString
       THEN LoadThrows /\ UNCHANGED <<headers, data>>
       ELSE IF csv.records = 0
       THEN /\ LoadReturns([success |-> TRUE, tableName |-> tableName,
                            records |-> 0, method |-> "copy"])
            /\ UNCHANGED <<headers, data>>
       ELSE /\ headers' = csv.headers
            /\ data' = csv.records
            /\ pc' = "copy_connect"
            /\ UNCHANGED <<orchVars, outVars>>
    /\ UNCHANGED <<cfg, dest, tableName, csv, copyVars, createVars, batchVars,
                   hist, extWrites>>

\* const client = await this.pgPool.connect()
CopyConnect ==
    /\ pc = "copy_connect"
    /\ \E o \in PgOutcomes :
         IF o = "ok"
         THEN /\ client' = TRUE
              /\ pc' = IF cfg.preserveViews THEN "copy_exists" ELSE "copy_drop"
              /\ UNCHANGED <<orchVars, outVars>>
         ELSE LoadThrows /\ UNCHANGED client
    /\ UNCHANGED <<cfg, dest, tableName, csv, headers, data, missingColumns,
                   createVars, batchVars, hist, extWrites>>

\* SELECT EXISTS (... information_schema.tables ...)
CopyCheckExists ==
    /\ pc = "copy_exists"
    /\ \E o \in PgOutcomes :
         IF o = "ok"
         THEN /\ pc' = IF dest[tableName].exists THEN "copy_columns" ELSE "copy_create"
              /\ UNCHANGED <<orchVars, outVars, client>>
         ELSE CopyThrows
    /\ UNCHANGED <<cfg, dest, tableName, csv, headers, data, missingColumns,
                   createVars, batchVars, hist, extWrites>>

\* const missingColumns = newColumnNames.filter(col => !existingColumnNames.includes(col))
\* where existingColumnNames leaves out id, created_at and updated_at
MissingColumns(d, hs) == hs \ (d.cols \ SystemColumns)

\* SELECT column_name FROM information_schema.columns ...
CopyGetColumns ==
    /\ pc = "copy_columns"
    /\ \E o \in PgOutcomes :
         IF o = "ok"
         THEN /\ missingColumns' = MissingColumns(dest[tableName], headers)
              /\ pc' = "copy_alter"
              /\ UNCHANGED <<orchVars, outVars, client>>
         ELSE CopyThrows /\ UNCHANGED missingColumns
    /\ UNCHANGED <<cfg, dest, tableName, csv, headers, data, createVars,
                   batchVars, hist, extWrites>>

\* for (const column of missingColumns) ALTER TABLE ... ADD COLUMN ... TEXT
CopyAddColumn ==
    /\ pc = "copy_alter"
    /\ missingColumns # {}
    /\ LET c == CHOOSE x \in missingColumns : TRUE IN
       \E o \in PgOutcomes :
         IF o = "ok" /\ ~AddColumnFails(dest[tableName], c)
         THEN /\ dest' = [dest EXCEPT ![tableName] = AddColumn(@, c)]
              /\ missingColumns' = missingColumns \ {c}
              /\ hist' = [hist EXCEPT !.added = @ \cup {c}]
              /\ UNCHANGED <<pc, orchVars, outVars, client>>
         ELSE CopyThrows /\ UNCHANGED <<dest, missingColumns, hist>>
    /\ UNCHANGED <<cfg, tableName, csv, headers, data, createVars, batchVars, extWrites>>

\* TRUNCATE TABLE (preserves views and indexes)
CopyTruncate ==
    /\ pc = "copy_alter"
    /\ missingColumns = {}
    /\ \E o \in PgOutcomes :
         IF o = "ok" /\ ~TruncateFails(dest[tableName])
         THEN /\ dest' = [dest EXCEPT ![tableName] = Truncated(@)]
              /\ hist' = [hist EXCEPT !.truncated = TRUE]
              /\ pc' = "copy_transfer"
              /\ UNCHANGED <<orchVars, outVars, client>>
         ELSE CopyThrows /\ UNCHANGED <<dest, hist>>
    /\ UNCHANGED <<cfg, tableName, csv, headers, data, missingColumns, createVars,
                   batchVars, extWrites>>

\* DROP TABLE IF EXISTS ... CASCADE
CopyDrop ==
    /\ pc = "copy_drop"
    /\ \E o \in PgOutcomes :
         IF o = "ok"
         THEN /\ dest' = [dest EXCEPT ![tableName] = Absent]
              /\ hist' = [hist EXCEPT !.dropped = TRUE]
              /\ pc' = "copy_create"
              /\ UNCHANGED <<orchVars, outVars, client>>
         ELSE CopyThrows /\ UNCHANGED <<dest, hist>>
    /\ UNCHANGED <<cfg, tableName, csv, headers, data, missingColumns, createVars,
                   batchVars, extWrites>>

\* CREATE TABLE ... ; CREATE INDEX ...
CopyCreate ==
    /\ pc = "copy_create"
    /\ \E o \in PgOutcomes :
         IF o = "ok" /\ ~CreateTableFails(dest[tableName], headers)
         THEN /\ dest' = [dest EXCEPT ![tableName] = CreatedTable(headers)]
              /\ hist' = [hist EXCEPT !.created = TRUE]
              /\ pc' = "copy_transfer"
              /\ UNCHANGED <<orchVars, outVars, client>>
         ELSE CopyThrows /\ UNCHANGED <<dest, hist>>
    /\ UNCHANGED <<cfg, tableName, csv, headers, data, missingColumns, createVars,
                   batchVars, extWrites>>

\* COPY ... FROM STDIN: the whole CSV text in one transfer
CopyTransfer ==
    /\ pc = "copy_transfer"
    /\ \E o \in PgOutcomes :
         IF o = "ok" /\ ~CopyFails(dest[tableName], headers)
         THEN /\ dest' = [dest EXCEPT ![tableName] = Copied(@, data)]
              /\ pc' = "copy_count"
              /\ UNCHANGED <<orchVars, outVars, client>>
         ELSE CopyThrows /\ UNCHANGED dest
    /\ UNCHANGED <<cfg, tableName, csv, headers, data, missingColumns, createVars,
                   batchVars, hist, extWrites>>

\* Verify import: SELECT COUNT(*), build the result, release the client
CopyCount ==
    /\ pc = "copy_count"
    /\ \E o \in PgOutcomes :
         IF o = "ok"
         THEN /\ client' = FALSE
              /\ LoadReturns(CopyResult(tableName, RowCount(dest[tableName]), data))
         ELSE CopyThrows
    /\ UNCHANGED <<cfg, dest, tableName, csv, headers, data, missingColumns,
                   createVars, batchVars, hist, extWrites>>

\* ------------------------------------------------------------------------
\* The REST client (supabase-js): a call resolves to {data, error} or, when
\* the transport fails, rejects.  exec_sql runs a statement and returns
\* 'SUCCESS' or 'ERROR: ...'.
\* ------------------------------------------------------------------------
RestOutcomes == {"ok", "error", "throw"}
RpcOutcomes == {"ok", "sqlerror", "fnmissing", "error", "throw"}

\* CREATE TABLE IF NOT EXISTS ... of generateCreateTableSQL, run by exec_sql:
\* nothing happens to a table that exists
CreateIfNotExistsFails(d, hs) == ~d.exists /\ hs \cap SystemColumns # {}
CreateIfNotExists(d, hs) == IF d.exists THEN d ELSE CreatedTable(hs)

\* ------------------------------------------------------------------------
\* replicateTable: parse and table preparation
\* ------------------------------------------------------------------------
ReplicateTable_Parse ==
    /\ pc = "rep_parse"
    /\ IF ~csv.isString
       THEN /\ LoadReturns([success |-> FALSE, tableName |-> tableName,
                            error |-> "exception"])
            /\ UNCHANGED <<headers, data>>
       ELSE IF csv.records = 0
       THEN /\ LoadReturns([success |-> TRUE, tableName |-> tableName, records |-> 0])
            /\ UNCHANGED <<headers, data>>
       ELSE /\ headers' = csv.headers
            /\ data' = csv.records
            /\ pc' = IF cfg.preserveViews THEN "rep_check" ELSE "rep_drop"
            /\ UNCHANGED <<orchVars, outVars>>
    /\ UNCHANGED <<cfg, dest, tableName, csv, copyVars, createVars, batchVars,
                   hist, extWrites>>

\* preserveViews: .from(cleanTableName).select('*').limit(0)
ReplicateTable_CheckExists ==
    /\ pc = "rep_check"
    /\ \E o \in RestOutcomes :
         /\ pc' = IF o = "ok" /\ RestVisible(dest[tableName])
                  THEN "rep_truncate" ELSE "create"
    /\ attempt' = 1
    /\ UNCHANGED <<cfg, dest, tableName, csv, orchVars, headers, data, copyVars,
                   tableResult, batchVars, outVars, hist, extWrites>>

\* preserveViews: rpc('exec_sql', TRUNCATE TABLE); the answer is not looked at
ReplicateTable_Truncate ==
    /\ pc = "rep_truncate"
    /\ \E o \in RpcOutcomes :
         IF o = "ok" /\ ~TruncateFails(dest[tableName])
         THEN /\ dest' = [dest EXCEPT ![tableName] = Truncated(@)]
              /\ hist' = [hist EXCEPT !.truncated = TRUE]
         ELSE UNCHANGED <<dest, hist>>
    /\ pc' = "create"
    /\ attempt' = 1
    /\ UNCHANGED <<cfg, tableName, csv, orchVars, headers, data, copyVars,
                   tableResult, batchVars, outVars, extWrites>>

\* destructive: rpc('exec_sql', DROP TABLE IF EXISTS ... CASCADE); the answer
\* (dropResult) is not looked at, a rejection is caught and logged
ReplicateTable_Drop ==
    /\ pc = "rep_drop"
    /\ \E o \in RpcOutcomes :
         IF o = "ok"
         THEN /\ dest' = [dest EXCEPT ![tableName] = Absent]
              /\ hist' = [hist EXCEPT !.dropped = TRUE]
         ELSE UNCHANGED <<dest, hist>>
    /\ pc' = "create"
    /\ attempt' = 1
    /\ UNCHANGED <<cfg, tableName, csv, orchVars, headers, data, copyVars,
                   tableResult, batchVars, outVars, extWrites>>

\* ------------------------------------------------------------------------
\* createTable and createTableDirect
\* ------------------------------------------------------------------------
\* one attempt of the RPC loop
CreateTable_Rpc ==
    /\ pc = "create"
    /\ \E o \in RpcOutcomes :
         LET d == dest[tableName]
             ran == o = "ok"
             failed == o = "sqlerror" \/ (ran /\ CreateIfNotExistsFails(d, headers))
             err == IF o = "fnmissing" THEN ErrFunctionMissing ELSE ErrNetwork
         IN
         IF ran /\ ~failed
         THEN \* return { success: true, method: 'rpc' }
              /\ dest' = [dest EXCEPT ![tableName] = CreateIfNotExists(d, headers)]
              /\ hist' = [hist EXCEPT !.created = @ \/ ~d.exists]
              /\ tableResult' = [success |-> TRUE, method |-> "rpc"]
              /\ pc' = "verify"
              /\ attempt' = 1
         ELSE IF o \in {"fnmissing", "error"} /\ Includes(err.message, DoesNotExist)
         THEN \* exec_sql function not found: createTableDirect
              /\ pc' = "create_direct"
              /\ UNCHANGED <<dest, hist, tableResult, attempt>>
         ELSE IF attempt < CreateMaxAttempts
         THEN \* continue, or a caught rejection before the last attempt
              /\ attempt' = attempt + 1
              /\ UNCHANGED <<dest, hist, tableResult, pc>>
         ELSE \* thrown and caught on the last attempt: createTableDirect
              /\ pc' = "create_direct"
              /\ UNCHANGED <<dest, hist, tableResult, attempt>>
    /\ UNCHANGED <<cfg, tableName, csv, orchVars, headers, data, copyVars,
                   batchVars, outVars, extWrites>>

\* createTableDirect: insert a test row carrying _table_created, then delete it
CreateTable_Direct ==
    /\ pc = "create_direct"
    /\ \E o \in RestOutcomes :
         LET keys == headers \cup {"_table_created"} IN
         IF o = "ok" /\ InsertErrors(dest[tableName], keys) = {NoError}
         THEN /\ tableResult' = [success |-> TRUE, method |-> "direct"]
              /\ pc' = "verify"
         ELSE /\ tableResult' = [success |-> FALSE, error |-> "manual creation required"]
              /\ pc' = "rep_manual"
    /\ attempt' = 1
    /\ UNCHANGED <<cfg, dest, tableName, csv, orchVars, headers, data, copyVars,
                   batchVars, outVars, hist, extWrites>>

\* replicateTable: table creation failed, run the generated SQL once more
ReplicateTable_ManualCreate ==
    /\ pc = "rep_manual"
    /\ \E o \in RpcOutcomes :
         LET d == dest[tableName] IN
         IF o = "ok" /\ ~CreateIfNotExistsFails(d, headers)
         THEN /\ dest' = [dest EXCEPT ![tableName] = CreateIfNotExists(d, headers)]
              /\ hist' = [hist EXCEPT !.created = @ \/ ~d.exists]
              /\ pc' = "verify"
              /\ UNCHANGED <<orchVars, outVars>>
         ELSE /\ LoadReturns([success |-> FALSE, tableName |-> tableName,
                              error |-> "Failed to create table manually"])
              /\ UNCHANGED <<dest, hist>>
    /\ UNCHANGED <<cfg, tableName, csv, headers, data, copyVars, createVars,
                   batchVars, extWrites>>

\* ------------------------------------------------------------------------
\* verifyTableExistsWithRetry
\* ------------------------------------------------------------------------
\* checkError.code === '42P01' || checkError.message.includes('does not exist')
IsTableMissing(e) == e.code = "42P01" \/ Includes(e.message, DoesNotExist)

\* if (attempt < maxRetries) wait and continue, else return the failure
VerifyRetries(a, maxRetries) == a < maxRetries

\* what replicateTable does with the verification's answer
VerifiedProceedsAnyway(ok) == TRUE
VerifiedProceeds(ok) == ok

\* one attempt of the loop, and replicateTable's use of the final answer
VerifyTableExistsWithRetry ==
    /\ pc = "verify"
    /\ \E o \in RestOutcomes :
         LET d == dest[tableName]
             checkError == IF o = "error" THEN ErrNetwork
                           ELSE IF RestVisible(d) THEN NoError ELSE ErrRelationMissing
             retry == \/ o = "throw"
                      \/ o = "ok" /\ checkError # NoError /\ IsTableMissing(checkError)
             success == o = "ok" /\ checkError = NoError
         IN
         /\ hist' = [hist EXCEPT !.checks = @ + 1, !.verified = success]
         /\ IF retry /\ VerifyRetries(attempt, VerifyMaxRetries)
            THEN /\ attempt' = attempt + 1
                 /\ UNCHANGED <<pc, orchVars, outVars>>
            ELSE IF VerifiedProceeds(success)
            THEN /\ pc' = "insert"
                 /\ UNCHANGED <<attempt, orchVars, outVars>>
            ELSE /\ LoadReturns([success |-> FALSE, tableName |-> tableName,
                                 error |-> "Table verification failed"])
                 /\ UNCHANGED attempt
    /\ UNCHANGED <<cfg, dest, tableName, csv, headers, data, copyVars, tableResult,
                   batchVars, extWrites>>

\* ------------------------------------------------------------------------
\* insertDataInBatches
\* ------------------------------------------------------------------------
SliceUncut(a, b) == a

\* data.slice(i, i + batchSize) ends at the last record at most
Min(a, b) == IF a < b THEN a ELSE b

BatchIndex(offset) == offset \div BatchSize

\* Math.floor(i / batchSize) + 1
BatchNumber(offset) == offset \div BatchSize + 1

\* if (error.message && error.message.includes('does not exist'))
IsFatal(e) == Includes(e.message, DoesNotExist)

\* the fatal branch ends the loop (break)
FatalBreaksOff(e) == FALSE
FatalBreaks(e) == IsFatal(e)

\* totalInserted += batch.length happens in the else branch only
CountsBatchAlways(e) == TRUE
CountsBatch(e) == e = NoError

IsFatalEntry(err) == err.fatal

\* the errors.push of the two branches
ErrorEntry(offset, e) ==
    IF IsFatal(e)
    THEN [batch |-> BatchNumber(offset), error |-> e.message, details |-> e,
          fatal |-> TRUE]
    ELSE [batch |-> BatchNumber(offset), error |-> e.message, details |-> e,
          fatal |-> FALSE, sampleData |-> offset + 1]

\* success: fatalErrors.length === 0 && hasPartialSuccess
InsertSuccessNoFatalOnly(errs, inserted) ==
    \A k \in 1..Len(errs) : ~IsFatalEntry(errs[k])
InsertSuccess(errs, inserted) ==
    (\A k \in 1..Len(errs) : ~IsFatalEntry(errs[k])) /\ inserted > 0

\* the object returned after the loop
BatchResult(n, inserted, errs) ==
    [success |-> InsertSuccess(errs, inserted),
     totalRecords |-> n,
     inserted |-> inserted,
     failed |-> n - inserted,
     successRate |-> IF n = 0 THEN "NaN" ELSE RoundPercent(inserted, n),
     errors |-> errs,
     partialSuccess |-> inserted > 0 /\ Len(errs) > 0]

\* insertDataInBatches hands r back: to replicateTable, or to the caller
InsertReturns(r) ==
    /\ insertResult' = r
    /\ IF cfg.entry = "insertDataInBatches"
       THEN pc' = "done" /\ ret' = r
       ELSE pc' = "rep_result" /\ UNCHANGED ret
    /\ UNCHANGED <<orchVars, thrown>>

\* one turn of the batch loop: slice, insert, look at the error
InsertBatch ==
    /\ pc = "insert"
    /\ i < data
    /\ LET d == dest[tableName]
           last == Min(i + BatchSize, data)
           size == last - i
       IN
       \E o \in RestOutcomes :
         IF o = "throw"
         THEN \* the catch around the whole function
              /\ log' = Append(log, [batch |-> BatchNumber(i), first |-> i + 1,
                                     last |-> last, outcome |-> "throw"])
              /\ InsertReturns([success |-> FALSE, error |-> "exception"])
              /\ UNCHANGED <<dest, i, totalInserted, errors>>
         ELSE \E e \in (IF o = "error" THEN {ErrInvalidInput}
                        ELSE InsertErrors(d, headers)) :
              /\ log' = Append(log, [batch |-> BatchNumber(i), first |-> i + 1,
                                     last |-> last,
                                     outcome |-> IF e = NoError THEN "ok"
                                                 ELSE IF IsFatal(e) THEN "fatal"
                                                 ELSE "rejected"])
              /\ dest' = IF e = NoError
                         THEN [dest EXCEPT ![tableName] = Copied(@, size)]
                         ELSE dest
              /\ totalInserted' = IF CountsBatch(e) THEN totalInserted + size
                                  ELSE totalInserted
              /\ errors' = IF e = NoError THEN errors
                           ELSE Append(errors, ErrorEntry(i, e))
              /\ IF e # NoError /\ FatalBreaks(e)
                 THEN pc' = "insert_end" /\ UNCHANGED i
                 ELSE i' = i + BatchSize /\ UNCHANGED pc
              /\ UNCHANGED <<insertResult, orchVars, outVars>>
    /\ UNCHANGED <<cfg, tableName, csv, headers, data, copyVars, createVars,
                   hist, extWrites>>

\* after the loop: build the result and return it
InsertDataInBatches_Return ==
    /\ \/ pc = "insert" /\ i >= data
       \/ pc = "insert_end"
    /\ InsertReturns(BatchResult(data, totalInserted, errors))
    /\ UNCHANGED <<cfg, dest, tableName, csv, headers, data, copyVars, createVars,
                   i, totalInserted, errors, log, hist, extWrites>>

\* replicateTable: Enhanced result reporting
ReplicateTable_Result ==
    /\ pc = "rep_result"
    /\ LET r == insertResult
           method == IF Has(tableResult, "method") THEN tableResult.method ELSE "manual"
       IN
       IF Has(r, "inserted")
       THEN LoadReturns(
              [success |-> r.success, tableName |-> tableName,
               records |-> r.totalRecords, inserted |-> r.inserted,
               failed |-> r.failed,
               successRate |-> r.successRate,
               partialSuccess |-> r.partialSuccess, errors |-> r.errors,
               tableCreated |-> tableResult.success, tableCreationMethod |-> method])
       ELSE \* records and inserted are undefined
            LoadReturns(
              [success |-> r.success, tableName |-> tableName,
               failed |-> 0, successRate |-> 0,
               partialSuccess |-> FALSE, errors |-> <<>>,
               tableCreated |-> tableResult.success, tableCreationMethod |-> method])
    /\ UNCHANGED <<cfg, dest, tableName, csv, headers, data, copyVars, createVars,
                   batchVars, hist, extWrites>>

\* ------------------------------------------------------------------------
\* The environment
\* ------------------------------------------------------------------------
\* a load is running
InLoad == pc \notin {"rt_for", "rt_while", "rt_after", "rt_categorize", "done"}

\* the REST layer reloads its schema cache and learns of the table being
\* loaded (the streaming load never asks the REST layer)
SchemaCacheReload ==
    /\ InLoad
    /\ cfg.entry \in {"replicateTable", "insertDataInBatches"}
    /\ dest[tableName].exists /\ ~dest[tableName].cached
    /\ dest' = [dest EXCEPT ![tableName].cached = TRUE]
    /\ UNCHANGED <<cfg, pc, tableName, csv, orchVars, headers, data, copyVars,
                   createVars, batchVars, outVars, hist, extWrites>>

\* another writer adds a row to the table being loaded (the loader does not
\* guard against it)
ExternalWrite ==
    /\ InLoad
    /\ extWrites < MaxExternalWrites
    /\ dest[tableName].exists
    /\ dest' = [dest EXCEPT ![tableName].new = @ + 1]
    /\ extWrites' = extWrites + 1
    /\ UNCHANGED <<cfg, pc, tableName, csv, orchVars, headers, data, copyVars,
                   createVars, batchVars, outVars, hist>>

\* ------------------------------------------------------------------------
\* Specification
\* ------------------------------------------------------------------------
Next ==
    \/ ReplicateTables_ForEach
    \/ ReplicateTables_Attempt
    \/ ReplicateTables_AfterAttempt
    \/ ReplicateTables_Categorize
    \/ ReplicateTables_Return
    \/ CopyPoolCheck
    \/ CopyTestConnection
    \/ CopyParse
    \/ CopyConnect
    \/ CopyCheckExists
    \/ CopyGetColumns
    \/ CopyAddColumn
    \/ CopyTruncate
    \/ CopyDrop
    \/ CopyCreate
    \/ CopyTransfer
    \/ CopyCount
    \/ ReplicateTable_Parse
    \/ ReplicateTable_CheckExists
    \/ ReplicateTable_Truncate
    \/ ReplicateTable_Drop
    \/ CreateTable_Rpc
    \/ CreateTable_Direct
    \/ ReplicateTable_ManualCreate
    \/ VerifyTableExistsWithRetry
    \/ InsertBatch
    \/ InsertDataInBatches_Return
    \/ ReplicateTable_Result
    \/ SchemaCacheReload
    \/ ExternalWrite

Spec == Init /\ [][Next]_vars

\* ------------------------------------------------------------------------
\* Vocabulary of the properties
\* ------------------------------------------------------------------------
\* total size of the batches of l the destination accepted
RECURSIVE AcceptedSum(_)
AcceptedSum(l) ==
    IF l = <<>> THEN 0
    ELSE (IF Head(l).outcome = "ok" THEN Head(l).last - Head(l).first + 1 ELSE 0)
         + AcceptedSum(Tail(l))

Outcomes(l) == {l[k].outcome : k \in 1..Len(l)}

\* a result that ends the retry loop
Landed(r) == Truthy(r, "success") \/ Truthy(r, "partialSuccess")

\* the load is about to hand its first record to the destination
AboutToTransfer ==
    \/ pc = "copy_transfer"
    \/ pc = "insert" /\ i = 0 /\ i < data

\* ------------------------------------------------------------------------
\* C1.  A multi-table run of replicateTables is never stopped by one table's
\* failure: when the run ends it has returned its results object, no
\* exception has left it, and every input table has a per-table result.
\* (Stated for a client whose pool is set up and retryCount >= 1, where every
\* table gets an attempt.)
\* ------------------------------------------------------------------------
C1_RunSurvivesTableFailure ==
    (cfg.entry = "replicateTables" /\ cfg.pgPool /\ cfg.retryCount >= 1 /\ pc = "done")
        => /\ ~thrown
           /\ ret = results
           /\ Len(results.success) + Len(results.failed) = cfg.tables

\* ------------------------------------------------------------------------
\* C2.  Every result insertDataInBatches returns after its batch loop has
\* inserted = sum of the sizes of the accepted batches, failed = total -
\* inserted, 0 <= inserted <= total, success exactly when no fatal error
\* was recorded and inserted > 0, and partialSuccess exactly when
\* inserted > 0 and the error list is non-empty.
\* ------------------------------------------------------------------------
C2_LoadResultAggregation ==
    Has(insertResult, "inserted") =>
        LET r == insertResult IN
        /\ r.totalRecords = data
        /\ r.inserted = AcceptedSum(log)
        /\ r.failed = r.totalRecords - r.inserted
        /\ r.inserted + r.failed = r.totalRecords
        /\ 0 <= r.inserted /\ r.inserted <= r.totalRecords
        /\ r.success <=> ("fatal" \notin Outcomes(log) /\ r.inserted > 0)
        /\ r.partialSuccess <=> (r.inserted > 0 /\ Len(r.errors) > 0)

\* a returned result in which one batch landed and another was rejected
C2_Witness ==
    /\ Has(insertResult, "inserted")
    /\ insertResult.inserted > 0
    /\ insertResult.failed > 0
    /\ insertResult.partialSuccess
    /\ Len(insertResult.errors) = 1

C4_FatalStopsBatches ==
    \A k \in 1..Len(log) :
        log[k].outcome = "fatal" =>
            /\ k = Len(log)
            /\ pc # "insert"
            /\ Len(errors) >= 1
            /\ errors[Len(errors)].fatal
            /\ errors[Len(errors)].batch = log[k].batch
            /\ Cardinality({j \in 1..Len(errors) : errors[j].fatal}) = 1

\* a finished load that met a fatal error with batches still to go
C4_Witness ==
    /\ pc = "done"
    /\ Len(log) >= 1
    /\ log[Len(log)].outcome = "fatal"
    /\ log[Len(log)].last < data

\* ------------------------------------------------------------------------
\* C5.  A batch rejection is classified fatal only when its cause is that the
\* destination table does not exist; a rejection for a missing column or a
\* rejected value is non-fatal.
\* ------------------------------------------------------------------------
C5_FatalOnlyForMissingTable ==
    \A j \in 1..Len(errors) :
        errors[j].fatal => errors[j].details = ErrRelationMissing

\* ------------------------------------------------------------------------
\* C6.  replicateTables makes at most retryCount attempts per table, and
\* starts another attempt only after a result that was neither success nor
\* partialSuccess.
\* ------------------------------------------------------------------------
C6_BoundedRetry ==
    cfg.entry = "replicateTables" =>
        /\ attempts <= cfg.retryCount
        /\ Len(attemptLog) <= attempts
        /\ \A k \in 1..Len(attemptLog) :
             attempts > k => ~Landed(attemptLog[k])

\* a second attempt that followed a failed first one, and succeeded
C6_Witness ==
    /\ cfg.entry = "replicateTables"
    /\ attempts = 2
    /\ Len(attemptLog) = 2
    /\ ~Landed(attemptLog[1])
    /\ Landed(attemptLog[2])

\* ------------------------------------------------------------------------
\* C7.  Under the preserving strategy, on both load paths, a load into an
\* existing table never drops the table or a column: when the first record
\* is about to be transferred the table has been truncated, and its columns
\* are the ones it had plus exactly the incoming headers it lacked, so they
\* include every incoming header.
\* ------------------------------------------------------------------------
C7_PreservingEvolvesSchema ==
    (/\ cfg.entry \in {"importCSVWithCOPY", "replicateTable", "replicateTables"}
     /\ cfg.preserveViews
     /\ hist.existed
     /\ AboutToTransfer)
        => LET d == dest[tableName] IN
           /\ d.exists
           /\ ~hist.dropped
           /\ hist.truncated
           /\ d.cols = hist.colsBefore \cup headers
           /\ headers \subseteq d.cols

\* ------------------------------------------------------------------------
\* C8.  Under the destructive strategy, when the first record is about to be
\* transferred the table was dropped and created fresh: it holds no row from
\* before this load, and its columns are exactly the incoming headers plus
\* the surrogate key and the two timestamps.
\* ------------------------------------------------------------------------
C8_DestructiveStartsFresh ==
    (/\ cfg.entry \in {"importCSVWithCOPY", "replicateTable"}
     /\ ~cfg.preserveViews
     /\ AboutToTransfer)
        => LET d == dest[tableName] IN
           /\ hist.created
           /\ hist.existed => hist.dropped
           /\ d.old = 0
           /\ d.cols = headers \cup SystemColumns

\* ------------------------------------------------------------------------
\* C9.  As claimed, for every load path: a record reaches the destination
\* only after the table was confirmed queryable, by a check made at most a
\* fixed number of times.
\* ------------------------------------------------------------------------
C9_VerifiedBeforeTransferOnEveryPath ==
    (/\ cfg.entry \in {"importCSVWithCOPY", "replicateTable", "replicateTables"}
     /\ (pc = "copy_count" \/ Len(log) > 0))
        => hist.verified /\ hist.checks <= VerifyMaxRetries

\* C9, amended.  On the batched path (replicateTable) no batch is submitted
\* before verifyTableExistsWithRetry confirmed the table; the check is made
\* at most VerifyMaxRetries times; and a load whose checks never confirmed
\* the table ends failed with no batch submitted.
C9_BatchedVerifiedBeforeTransfer ==
    cfg.entry = "replicateTable" =>
        /\ hist.checks <= VerifyMaxRetries
        /\ (pc \in {"insert", "insert_end", "rep_result"} \/ Len(log) > 0) => hist.verified
        /\ (pc = "done" /\ hist.checks > 0 /\ ~hist.verified) =>
              /\ Len(log) = 0
              /\ ret.success = FALSE

\* the check was made VerifyMaxRetries times without seeing the table
C9_Witness ==
    /\ cfg.entry = "replicateTable"
    /\ pc = "done"
    /\ hist.checks = VerifyMaxRetries
    /\ ~hist.verified
    /\ ret.success = FALSE
    /\ Len(log) = 0

\* ------------------------------------------------------------------------
\* C10.  When the bulk-copy transfer completes, the streaming load reports
\* success exactly when the table's row count after the transfer equals the
\* number of parsed records; a differing count is reported as success=false.
\* ------------------------------------------------------------------------
C10_CountMismatchFails ==
    /\ (cfg.entry = "importCSVWithCOPY" /\ pc = "done" /\ Has(ret, "inserted")) =>
          /\ ret.records = csv.records
          /\ ret.inserted = RowCount(dest[tableName])
          /\ ret.success <=> (RowCount(dest[tableName]) = csv.records)
    /\ \A k \in 1..Len(attemptLog) :
          Has(attemptLog[k], "inserted") =>
             /\ attemptLog[k].records = csv.records
             /\ attemptLog[k].success <=> (attemptLog[k].inserted = csv.records)

\* a completed transfer whose row count differs from the parsed records
C10_Witness ==
    /\ cfg.entry = "importCSVWithCOPY"
    /\ pc = "done"
    /\ Has(ret, "inserted")
    /\ RowCount(dest[tableName]) # csv.records
    /\ ret.success = FALSE

\* ========================================================================
\* Character-level model of the pure functions of SupabaseBulkClient: the
\* CSV parser, the column-name normalizer, the value cleaner and the CSV
\* text the streaming load writes.
\*
\* A string is a sequence of characters.  A character is a one-character
\* string, or the name of a code point above U+007F.  A JavaScript value is
\* Null, a string Str(s) or a number; a property key is a string.
\* ========================================================================

\* ------------------------------------------------------------------------
\* Bounds of the character-level inputs
\* ------------------------------------------------------------------------
\* characters of the data part of a CSV text
MaxTextLen == 5
\* characters of a header handed to cleanColumnName on its own
MaxHeaderLen == 3
\* headers of a list handed to cleanHeaders
MaxHeaders == 3
\* characters of a value handed to the value cleaner
MaxValueLen == 3

\* .substring(0, 63): PostgreSQL's column name limit
MaxNameLength == 63

\* ------------------------------------------------------------------------
\* Characters
\* ------------------------------------------------------------------------
LowerLetters == <<"a", "b", "c", "d", "e", "f", "g", "h", "i", "j", "k", "l", "m",
                  "n", "o", "p", "q", "r", "s", "t", "u", "v", "w", "x", "y", "z">>
UpperLetters == <<"A", "B", "C", "D", "E", "F", "G", "H", "I", "J", "K", "L", "M",
                  "N", "O", "P", "Q", "R", "S", "T", "U", "V", "W", "X", "Y", "Z">>
DigitChars == <<"0", "1", "2", "3", "4", "5", "6", "7", "8", "9">>
HexChars == DigitChars \o <<"a", "b", "c", "d", "e", "f">>

Range(s) == {s[k] : k \in DOMAIN s}

\* /[^\x00-\x7F]/: the characters above U+007F the inputs use (e-acute, ain)
NonAsciiChars == {"U+00E9", "U+0639"}
\* \s, and what String.prototype.trim removes
WhiteSpace == {" ", "\t", "\r", "\n"}
\* [a-z0-9_]
NameChars == Range(LowerLetters) \cup Range(DigitChars) \cup {"_"}
\* \d
IsDigit(c) == c \in Range(DigitChars)
\* [A-Za-z]
IsLetter(c) == c \in Range(LowerLetters) \cup Range(UpperLetters)

\* the value of a decimal digit
DigitValue(c) == (CHOOSE k \in 1..10 : DigitChars[k] = c) - 1

\* a JavaScript string value
Str(s) == [str |-> s]
IsString(v) == "str" \in DOMAIN v

\* ------------------------------------------------------------------------
\* String methods
\* ------------------------------------------------------------------------
\* String.prototype.trim: what lies between the first and the last character
\* that is no white space
Trim(s) ==
    LET inked == {k \in 1..Len(s) : s[k] \notin WhiteSpace}
    IN IF inked = {} THEN <<>>
       ELSE SubSeq(s, CHOOSE k \in inked : \A j \in inked : k <= j,
                      CHOOSE k \in inked : \A j \in inked : k >= j)

\* s.includes(c) for a character c
IncludesChar(s, c) == \E k \in 1..Len(s) : s[k] = c

\* s.indexOf(c) / s.lastIndexOf(c) as 1-based positions, 0 when absent
IndexOf(s, c) ==
    IF IncludesChar(s, c)
    THEN CHOOSE k \in 1..Len(s) : s[k] = c /\ \A j \in 1..(k - 1) : s[j] # c
    ELSE 0
LastIndexOf(s, c) ==
    IF IncludesChar(s, c)
    THEN CHOOSE k \in 1..Len(s) : s[k] = c /\ \A j \in (k + 1)..Len(s) : s[j] # c
    ELSE 0

\* s.replace(/c/g, '') for a set of characters
RemoveChars(s, cs) == SelectSeq(s, LAMBDA c : c \notin cs)

\* s.replace(c, d): the first occurrence only
ReplaceFirst(s, c, d) ==
    IF IncludesChar(s, c) THEN [s EXCEPT ![IndexOf(s, c)] = d] ELSE s

\* s.endsWith(t) / s.startsWith(t)
EndsWith(s, t) ==
    Len(s) >= Len(t) /\ SubSeq(s, Len(s) - Len(t) + 1, Len(s)) = t
StartsWith(s, t) == Len(s) >= Len(t) /\ SubSeq(s, 1, Len(t)) = t

\* s.split(sep) for a separator character
RECURSIVE Split(_, _)
Split(s, sep) ==
    IF IncludesChar(s, sep)
    THEN <<SubSeq(s, 1, IndexOf(s, sep) - 1)>>
         \o Split(SubSeq(s, IndexOf(s, sep) + 1, Len(s)), sep)
    ELSE <<s>>

\* parts.join(sep)
RECURSIVE Join(_, _)
Join(parts, sep) ==
    IF parts = <<>> THEN <<>>
    ELSE IF Len(parts) = 1 THEN parts[1]
    ELSE parts[1] \o <<sep>> \o Join(Tail(parts), sep)

\* s.replace(/^c|c$/g, ''): one leading c and one trailing c are removed
StripEdges(s, c) ==
    LET a == IF s # <<>> /\ Head(s) = c THEN Tail(s) ELSE s
    IN IF a # <<>> /\ a[Len(a)] = c THEN SubSeq(a, 1, Len(a) - 1) ELSE a

\* `${n}` for a non-negative integer
RECURSIVE Decimal(_)
Decimal(n) ==
    IF n < 10 THEN <<DigitChars[n + 1]>>
    ELSE Decimal(n \div 10) \o <<DigitChars[(n % 10) + 1]>>

\* all strings over an alphabet with at most n characters
RECURSIVE Strings(_, _)
Strings(alphabet, n) ==
    IF n = 0 THEN {<<>>}
    ELSE LET shorter == Strings(alphabet, n - 1)
         IN shorter \cup {Append(s, c) : s \in shorter, c \in alphabet}

\* ------------------------------------------------------------------------
\* parseCSVData
\* ------------------------------------------------------------------------
\* "(?:[^"]+|"")*" from position q, after the opening quote: the position
\* after the closing quote, 0 when there is no match.  A doubled quote is
\* taken as part of the run when the rest still matches, as the closing
\* quote otherwise
RECURSIVE QuotedRun(_, _)
QuotedRun(s, q) ==
    IF q > Len(s) THEN 0
    ELSE IF s[q] # "\"" THEN QuotedRun(s, q + 1)
    ELSE IF q < Len(s) /\ s[q + 1] = "\""
         THEN LET rest == QuotedRun(s, q + 2)
              IN IF rest # 0 THEN rest ELSE q + 1
         ELSE q + 1

\* [^,]* from position g: the position of the next comma, or of the end
RECURSIVE UnquotedRun(_, _)
UnquotedRun(s, g) ==
    IF g > Len(s) \/ s[g] = "," THEN g ELSE UnquotedRun(s, g + 1)

\* ("(?:[^"]+|"")*"|[^,]*) from position g: the position after the group
GroupEnd(s, g) ==
    IF g <= Len(s) /\ s[g] = "\"" /\ QuotedRun(s, g + 1) # 0
    THEN QuotedRun(s, g + 1)
    ELSE UnquotedRun(s, g)

\* the next position at or after p that holds a comma, 0 when there is none
RECURSIVE NextComma(_, _)
NextComma(s, p) ==
    IF p > Len(s) THEN 0 ELSE IF s[p] = "," THEN p ELSE NextComma(s, p + 1)

\* line.match(/(?:^|,)("(?:[^"]+|"")*"|[^,]*)/g) from lastIndex p - 1.  At
\* the start of the line ^ matches; an empty match there moves lastIndex
\* on by one.  Later a match begins at the next comma
RECURSIVE MatchAll(_, _)
MatchAll(s, p) ==
    IF p = 1
    THEN LET e == GroupEnd(s, 1)
         IN <<SubSeq(s, 1, e - 1)>> \o MatchAll(s, IF e = 1 THEN 2 ELSE e)
    ELSE LET k == NextComma(s, p)
         IN IF k = 0 THEN <<>>
            ELSE <<SubSeq(s, k, GroupEnd(s, k + 1) - 1)>>
                 \o MatchAll(s, GroupEnd(s, k + 1))

\* .replace(/^"|"$/g, '')
StripWrappingQuotes(m) == StripEdges(m, "\"")

\* match.replace(/^,/, '').replace(/^"|"$/g, '').trim()
TokenValue(m) ==
    Trim(StripWrappingQuotes(IF m # <<>> /\ Head(m) = "," THEN Tail(m) ELSE m))

\* the values of a physical line
LineValues(line) ==
    LET matches == MatchAll(line, 1)
    IN [k \in 1..Len(matches) |-> TokenValue(matches[k])]

\* the value stored for a token: '' becomes null, the rest is trimmed and
\* freed of carriage returns
FieldValue(value) ==
    IF value = <<>> THEN Null ELSE Str(RemoveChars(Trim(value), {"\r"}))

\* headers.forEach((header, index) => row[header] = value): the row object
\* has one property per header text, set by the last position that has it
RowOf(hdrs, values) ==
    [h \in Range(hdrs) |->
        FieldValue(values[CHOOSE k \in 1..Len(hdrs) :
                              hdrs[k] = h /\ \A j \in (k + 1)..Len(hdrs) : hdrs[j] # h])]

\* csvData.split('\n').filter(line => line.trim())
PhysicalLines(csvData) ==
    SelectSeq(Split(csvData, "\n"), LAMBDA line : Trim(line) # <<>>)

\* what the scan made of the data lines, in input order
ScannedLines(csvData) ==
    LET lines == PhysicalLines(csvData)
    IN [k \in 1..(Len(lines) - 1) |->
           [line |-> lines[k + 1], values |-> LineValues(lines[k + 1])]]

\* a data line is kept when its token count is the header count
KeepsLine(hdrs, values) == Len(values) = Len(hdrs)

parseCSVData(csvData) ==
    LET lines == PhysicalLines(csvData)
    IN IF Len(lines) = 0 THEN [headers |-> <<>>, data |-> <<>>]
       ELSE LET hdrs == LineValues(lines[1])
                kept == SelectSeq(ScannedLines(csvData),
                                  LAMBDA e : KeepsLine(hdrs, e.values))
            IN [headers |-> hdrs,
                data |-> [k \in 1..Len(kept) |-> RowOf(hdrs, kept[k].values)]]

\* ------------------------------------------------------------------------
\* cleanColumnName, cleanHeaders
\* ------------------------------------------------------------------------
\* a JavaScript number that is a non-negative integer (an array index)
Index(n) == [num |-> n, scale |-> 0]

\* the property key a value is turned into
PropertyKey(v) == IF IsString(v) THEN v.str ELSE <<"n", "u", "l", "l">>

\* !columnName || typeof columnName !== 'string' || !columnName.trim()
IsBlankName(columnName) ==
    ~IsString(columnName) \/ Trim(columnName.str) = <<>>

\* /[^\x00-\x7F]/.test(columnName)
HasNonLatin(s) == \E k \in 1..Len(s) : s[k] \in NonAsciiChars

\* the position of a character in an arbitrary fixed order of the characters
CharCode(c) ==
    LET all == LowerLetters \o UpperLetters \o DigitChars
               \o <<"_", " ", ",", "\"", "-", ".", "U+00E9", "U+0639">>
    IN IF \E k \in 1..Len(all) : all[k] = c
       THEN CHOOSE k \in 1..Len(all) : all[k] = c ELSE 0

\* a 16-bit digest of a text: of its length, and of which characters stand
\* at which positions
RECURSIVE Digest(_, _, _)
Digest(s, chars, acc) ==
    IF chars = {} THEN acc
    ELSE LET c == CHOOSE x \in chars : \A y \in chars : CharCode(x) <= CharCode(y)
         IN Digest(s, chars \ {c},
                   (acc * 31 + CharCode(c) * 7 + IndexOf(s, c) * 3
                    + Cardinality({k \in 1..Len(s) : s[k] = c})) % 65536)

\* crypto.createHash('md5').update(columnName).digest('hex').substring(0, 8):
\* eight hexadecimal digits that depend on the text, and on nothing else.
\* MD5 itself is not computed; a 16-bit digest of the text stands for it
Md5Hex8(s) ==
    LET d == Digest(s, Range(s), Len(s))
    IN [k \in 1..8 |-> HexChars[((d \div (IF k % 4 = 1 THEN 4096
                                          ELSE IF k % 4 = 2 THEN 256
                                          ELSE IF k % 4 = 3 THEN 16 ELSE 1)) % 16) + 1]]

\* .toLowerCase()
ToLowerCase(s) ==
    [k \in 1..Len(s) |->
        IF \E j \in 1..26 : UpperLetters[j] = s[k]
        THEN LowerLetters[CHOOSE j \in 1..26 : UpperLetters[j] = s[k]]
        ELSE s[k]]

\* .replace(/[^a-z0-9_]/g, '_')
ReplaceOtherChars(s) ==
    [k \in 1..Len(s) |-> IF s[k] \in NameChars THEN s[k] ELSE "_"]

\* .replace(/_{2,}/g, '_')
CollapseNone(s) == s

\* one underscore of the first run of two or more is dropped, until no run
\* is left
RECURSIVE CollapseUnderscores(_)
CollapseUnderscores(s) ==
    LET runs == {k \in 1..(Len(s) - 1) : s[k] = "_" /\ s[k + 1] = "_"}
    IN IF runs = {} THEN s
       ELSE LET k == CHOOSE x \in runs : \A y \in runs : x <= y
            IN CollapseUnderscores(SubSeq(s, 1, k) \o SubSeq(s, k + 2, Len(s)))

\* .replace(/^_|_$/g, '')
StripUnderscores(s) == StripEdges(s, "_")

\* .substring(0, 63)
Truncate(s) == SubSeq(s, 1, Min(Len(s), MaxNameLength))

\* 'unnamed_column'
UnnamedColumn ==
    <<"u", "n", "n", "a", "m", "e", "d", "_", "c", "o", "l", "u", "m", "n">>

\* `col_${fallbackIndex}_${suffix}`
ColName(fallbackIndex, suffix) ==
    <<"c", "o", "l", "_">> \o Decimal(fallbackIndex.num) \o <<"_">> \o suffix

\* the standard cleaning of a header of Latin characters
StandardClean(s) ==
    Truncate(StripUnderscores(CollapseUnderscores(ReplaceOtherChars(ToLowerCase(s)))))

cleanColumnName(columnName, fallbackIndex) ==
    IF IsBlankName(columnName)
    THEN IF fallbackIndex # Null
         THEN ColName(fallbackIndex, <<"e", "m", "p", "t", "y">>)
         ELSE UnnamedColumn
    ELSE IF HasNonLatin(columnName.str) /\ fallbackIndex # Null
    THEN ColName(fallbackIndex, Md5Hex8(columnName.str))
    ELSE IF StandardClean(columnName.str) = <<>>
    THEN IF fallbackIndex # Null
         THEN ColName(fallbackIndex, <<"c", "l", "e", "a", "n", "e", "d">>)
         ELSE UnnamedColumn
    ELSE StandardClean(columnName.str)

\* while (seenNames.has(finalName)) { finalName = `${cleanName}_${counter}`;
\* counter++; }
RECURSIVE WhileSeen(_, _, _, _)
WhileSeen(cleanName, finalName, counter, seenNames) ==
    IF finalName \in seenNames
    THEN WhileSeen(cleanName, cleanName \o <<"_">> \o Decimal(counter),
                   counter + 1, seenNames)
    ELSE finalName

FirstSeenName(cleanName, seenNames) == cleanName

FinalName(cleanName, seenNames) == WhileSeen(cleanName, cleanName, 1, seenNames)

\* headers.forEach((header, index) => ...) from position k on, with the
\* names pushed and the mapping written so far.  headerMapping is an object:
\* its keys are header texts
RECURSIVE CleanHeadersFrom(_, _, _, _)
CleanHeadersFrom(hdrs, k, cleanedHeaders, headerMapping) ==
    IF k > Len(hdrs)
    THEN [cleanedHeaders |-> cleanedHeaders, headerMapping |-> headerMapping]
    ELSE LET finalName == FinalName(cleanColumnName(hdrs[k], Index(k - 1)),
                                    Range(cleanedHeaders))
         IN CleanHeadersFrom(hdrs, k + 1, Append(cleanedHeaders, finalName),
                             (PropertyKey(hdrs[k]) :> finalName) @@ headerMapping)

\* an object without properties
EmptyObject == [key \in {} |-> <<>>]

cleanHeaders(hdrs) == CleanHeadersFrom(hdrs, 1, <<>>, EmptyObject)

\* the headers of a parse result or the keys of a row, as string values
AsStrings(keys) == [k \in 1..Len(keys) |-> Str(keys[k])]

\* ------------------------------------------------------------------------
\* The CSV text the streaming load writes, and the table definition the
\* batched load generates
\* ------------------------------------------------------------------------
\* value.replace(/"/g, '""')
RECURSIVE DoubleQuotes(_)
DoubleQuotes(s) ==
    IF s = <<>> THEN <<>>
    ELSE (IF Head(s) = "\"" THEN <<"\"", "\"">> ELSE <<Head(s)>>)
         \o DoubleQuotes(Tail(s))

\* one field of a line of csvDataLines
SerializeField(value) ==
    IF ~IsString(value) \/ value.str = <<>> THEN <<>>
    ELSE LET v == Trim(value.str)
         IN IF \E c \in {",", "\"", "\n", "\r"} : IncludesChar(v, c)
            THEN <<"\"">> \o DoubleQuotes(v) \o <<"\"">>
            ELSE v

\* Object.keys(headerMapping).find(orig => headerMapping[orig] === cleanHeader)
\* and row[originalHeader]; undefined when no header maps to the name
MappedValue(row, headerMapping, cleanHeader) ==
    LET origs == {orig \in DOMAIN headerMapping : headerMapping[orig] = cleanHeader}
    IN IF origs = {} THEN Null ELSE row[CHOOSE orig \in origs : TRUE]

\* [csvHeaderLine, ...csvDataLines].join('\n')
FullCSVData(hdrs, rows) ==
    LET c == cleanHeaders(AsStrings(hdrs))
        line(row) ==
            Join([k \in 1..Len(c.cleanedHeaders) |->
                     SerializeField(MappedValue(row, c.headerMapping,
                                                c.cleanedHeaders[k]))], ",")
    IN Join(<<Join(c.cleanedHeaders, ",")>> \o [k \in 1..Len(rows) |-> line(rows[k])],
            "\n")

\* generateCreateTableSQL: headers.map(header => headerMapping[header])
CreateTableColumns(hdrs) ==
    LET c == cleanHeaders(AsStrings(hdrs))
    IN [k \in 1..Len(hdrs) |-> c.headerMapping[hdrs[k]]]

\* How the destination reads one line of COPY ... WITH (FORMAT csv): fields
\* are separated by commas outside quotes, a quoted field ends at a quote
\* that is not doubled, and a doubled quote inside stands for one quote.
\* mode is "start", "bare", "quoted" or "closed"
RECURSIVE CsvScan(_, _, _, _, _)
CsvScan(s, k, mode, cur, done) ==
    IF k > Len(s)
    THEN IF mode = "quoted" THEN [ok |-> FALSE, fields |-> <<>>]
         ELSE [ok |-> TRUE,
               fields |-> Append(done, [text |-> cur, quoted |-> mode = "closed"])]
    ELSE IF mode = "quoted"
    THEN IF s[k] # "\"" THEN CsvScan(s, k + 1, "quoted", Append(cur, s[k]), done)
         ELSE IF k < Len(s) /\ s[k + 1] = "\""
         THEN CsvScan(s, k + 2, "quoted", Append(cur, "\""), done)
         ELSE CsvScan(s, k + 1, "closed", cur, done)
    ELSE IF s[k] = ","
    THEN CsvScan(s, k + 1, "start", <<>>,
                 Append(done, [text |-> cur, quoted |-> mode = "closed"]))
    ELSE IF mode = "closed" THEN [ok |-> FALSE, fields |-> <<>>]
    ELSE IF s[k] = "\""
    THEN IF mode = "start" THEN CsvScan(s, k + 1, "quoted", <<>>, done)
         ELSE [ok |-> FALSE, fields |-> <<>>]
    ELSE CsvScan(s, k + 1, "bare", Append(cur, s[k]), done)

CsvFields(line) == CsvScan(line, 1, "start", <<>>, <<>>)

\* the rows COPY "t" (cleanedHeaders) FROM STDIN WITH (FORMAT csv, HEADER
\* true) stores: the first line is skipped, an unquoted empty field is NULL
CopiedRows(cleanedHeaders, text) ==
    LET lines == Tail(Split(text, "\n"))
    IN [k \in 1..Len(lines) |->
           [j \in 1..Len(cleanedHeaders) |->
               LET f == CsvFields(lines[k]).fields
               IN IF j > Len(f) \/ (f[j].text = <<>> /\ ~f[j].quoted)
                  THEN Null ELSE Str(f[j].text)]]

\* ------------------------------------------------------------------------
\* Specification of the data path: a CSV text is parsed, its table
\* definition generated, its records written as CSV text and read back
\* ------------------------------------------------------------------------
TextChars == {"a", "b", ",", "\"", " ", "\n"}

HeaderLines ==
    {<<"a">>, <<"a", ",", "b">>, <<"a", ",", "a">>, <<"A", ",", "a">>}

CsvTexts ==
    {<<>>} \cup {h \o <<"\n">> \o t : h \in HeaderLines,
                                     t \in Strings(TextChars, MaxTextLen)}

\* variables the character-level specifications leave at their first value
idleVars == <<dest, tableName, ti, attempts, lastResult, results, client,
              missingColumns, attempt, tableResult, i, totalInserted, errors,
              insertResult, thrown, attemptLog, hist, extWrites>>

IdleInit ==
    /\ dest = [t \in TableNames |-> Absent]
    /\ tableName = 1
    /\ ti = 0
    /\ attempts = 0
    /\ lastResult = Null
    /\ results = [success |-> <<>>, failed |-> <<>>, totalRecords |-> 0]
    /\ client = FALSE
    /\ missingColumns = {}
    /\ attempt = 0
    /\ tableResult = Null
    /\ i = 0
    /\ totalInserted = 0
    /\ errors = <<>>
    /\ insertResult = Null
    /\ thrown = FALSE
    /\ attemptLog = <<>>
    /\ hist = NoHist
    /\ extWrites = 0

InitParse ==
    /\ IdleInit
    /\ cfg = [entry |-> "parseCSVData"]
    /\ csv \in CsvTexts
    /\ pc = "parse"
    /\ headers = <<>>
    /\ data = <<>>
    /\ log = <<>>
    /\ ret = Null

\* const { headers, data } = await this.parseCSVData(csvData); log keeps
\* what the scan made of each data line
ParseCSVData ==
    /\ pc = "parse"
    /\ headers' = parseCSVData(csv).headers
    /\ data' = parseCSVData(csv).data
    /\ log' = ScannedLines(csv)
    /\ pc' = "parsed"
    /\ UNCHANGED <<cfg, csv, ret>>
    /\ UNCHANGED idleVars

\* replicateTable: the column list of the CREATE TABLE statement
GenerateCreateTableSQL ==
    /\ pc = "parsed"
    /\ data # <<>>
    /\ ret' = [columns |-> CreateTableColumns(headers)]
    /\ pc' = "sql"
    /\ UNCHANGED <<cfg, csv, headers, data, log>>
    /\ UNCHANGED idleVars

\* importCSVWithCOPY: the column list of its CREATE TABLE statement and the
\* text handed to COPY
SerializeCSV ==
    /\ pc = "parsed"
    /\ data # <<>>
    /\ ret' = [cleanedHeaders |-> cleanHeaders(AsStrings(headers)).cleanedHeaders,
               text |-> FullCSVData(headers, data)]
    /\ pc' = "serialized"
    /\ UNCHANGED <<cfg, csv, headers, data, log>>
    /\ UNCHANGED idleVars

\* the destination stores the text
CopyFromStdin ==
    /\ pc = "serialized"
    /\ ret' = [cleanedHeaders |-> ret.cleanedHeaders, text |-> ret.text,
               rows |-> CopiedRows(ret.cleanedHeaders, ret.text)]
    /\ pc' = "copied"
    /\ UNCHANGED <<cfg, csv, headers, data, log>>
    /\ UNCHANGED idleVars

\* the text is given to parseCSVData again
ParseAgain ==
    /\ pc = "serialized"
    /\ ret' = [cleanedHeaders |-> ret.cleanedHeaders, text |-> ret.text,
               parsed |-> parseCSVData(ret.text)]
    /\ pc' = "reparsed"
    /\ UNCHANGED <<cfg, csv, headers, data, log>>
    /\ UNCHANGED idleVars

NextParse ==
    \/ ParseCSVData
    \/ GenerateCreateTableSQL
    \/ SerializeCSV
    \/ CopyFromStdin
    \/ ParseAgain

SpecParse == InitParse /\ [][NextParse]_vars

\* ------------------------------------------------------------------------
\* Specification of the column-name normalizer: cleanColumnName is called
\* with one header, cleanHeaders with a header list
\* ------------------------------------------------------------------------
\* characters of the headers given to cleanColumnName: a lower-case and an
\* upper-case letter, a digit, an underscore, a space, a non-ASCII letter
NameInputChars == {"a", "B", "1", "_", " ", "U+00E9"}

\* a run of letters that brings a header to the length limit
Padding == [k \in 1..(MaxNameLength - 1) |-> "x"]

\* the headers given to cleanColumnName: every short string, and every
\* short string followed by the padding
ColumnNameInputs ==
    {Null}
    \cup {Str(s) : s \in Strings(NameInputChars, MaxHeaderLen)}
    \cup {Str(s \o Padding) : s \in Strings(NameInputChars, MaxHeaderLen)}

\* the positions given to cleanColumnName; Null when it is called without
FallbackIndexes == {Null, Index(0), Index(MaxHeaders), Index(MaxHeaders + 10)}

\* the headers of the lists given to cleanHeaders: null, empty and blank
\* headers, headers that clean to the same name, a header that is the name
\* another gets by suffixing, a header that is the name an empty header
\* gets, a non-ASCII header, and headers at and above the length limit
RawHeaders ==
    {Null, Str(<<>>), Str(<<" ">>), Str(<<"a">>), Str(<<"A">>),
     Str(<<"a", "_", "1">>), Str(<<"a", " ">>), Str(<<"U+00E9">>),
     Str(<<"c", "o", "l", "_", "1", "_", "e", "m", "p", "t", "y">>),
     Str(<<"a">> \o Padding), Str(<<"a", "a">> \o Padding)}

RECURSIVE Lists(_, _)
Lists(S, n) ==
    IF n = 0 THEN {<<>>}
    ELSE LET shorter == Lists(S, n - 1)
         IN shorter \cup {Append(l, x) : l \in shorter, x \in S}

InitHeaders ==
    /\ IdleInit
    /\ \/ /\ cfg \in {[entry |-> "cleanColumnName", columnName |-> c,
                       fallbackIndex |-> f] :
                          c \in ColumnNameInputs, f \in FallbackIndexes}
          /\ headers = <<>>
          /\ pc = "name"
       \/ /\ cfg = [entry |-> "cleanHeaders"]
          /\ headers \in Lists(RawHeaders, MaxHeaders)
          /\ pc = "headers"
    /\ csv = <<>>
    /\ data = <<>>
    /\ log = <<>>
    /\ ret = Null

CleanColumnName ==
    /\ pc = "name"
    /\ ret' = [name |-> cleanColumnName(cfg.columnName, cfg.fallbackIndex)]
    /\ pc' = "named"
    /\ UNCHANGED <<cfg, csv, headers, data, log>>
    /\ UNCHANGED idleVars

CleanHeaders ==
    /\ pc = "headers"
    /\ ret' = cleanHeaders(headers)
    /\ pc' = "cleaned"
    /\ UNCHANGED <<cfg, csv, headers, data, log>>
    /\ UNCHANGED idleVars

NextHeaders ==
    \/ CleanColumnName
    \/ CleanHeaders

SpecHeaders == InitHeaders /\ [][NextHeaders]_vars

\* ------------------------------------------------------------------------
\* Numbers
\* ------------------------------------------------------------------------
\* NaN
NaN == [nan |-> TRUE]

\* the JavaScript number mantissa / 10^scale, without trailing fraction zeros
RECURSIVE Num(_, _)
Num(mantissa, scale) ==
    IF scale > 0 /\ mantissa % 10 = 0
    THEN Num(mantissa \div 10, scale - 1)
    ELSE [num |-> mantissa, scale |-> scale]

IsNumber(v) == "num" \in DOMAIN v

\* the first position at or after p whose character is outside a class
SpanEnd(s, p, class) ==
    IF \E k \in p..Len(s) : s[k] \notin class
    THEN CHOOSE k \in p..Len(s) : s[k] \notin class
                                  /\ \A j \in p..(k - 1) : s[j] \in class
    ELSE Len(s) + 1

\* the number a run of decimal digits writes
RECURSIVE DigitsValue(_)
DigitsValue(ds) ==
    IF ds = <<>> THEN 0
    ELSE DigitsValue(SubSeq(ds, 1, Len(ds) - 1)) * 10 + DigitValue(ds[Len(ds)])

\* parseFloat(s): the longest prefix [+-]digits[.digits] after leading white
\* space, NaN when it holds no digit
ParseFloat(s) ==
    LET start == SpanEnd(s, 1, WhiteSpace)
        signed == start <= Len(s) /\ s[start] \in {"-", "+"}
        int0 == IF signed THEN start + 1 ELSE start
        int1 == SpanEnd(s, int0, Range(DigitChars))
        dotted == int1 <= Len(s) /\ s[int1] = "."
        frac1 == IF dotted THEN SpanEnd(s, int1 + 1, Range(DigitChars)) ELSE int1
        ints == SubSeq(s, int0, int1 - 1)
        fracs == IF dotted THEN SubSeq(s, int1 + 1, frac1 - 1) ELSE <<>>
        magnitude == DigitsValue(ints \o fracs)
    IN IF ints = <<>> /\ fracs = <<>> THEN NaN
       ELSE Num(IF signed /\ s[start] = "-" THEN 0 - magnitude ELSE magnitude,
                Len(fracs))

\* !isNaN(s) for a string: Number(s) is a number when s, trimmed, is empty
\* or is [+-]digits[.digits] or [+-].digits as a whole
IsNumeric(s) ==
    LET t == Trim(s)
        int0 == IF t # <<>> /\ t[1] \in {"-", "+"} THEN 2 ELSE 1
        int1 == SpanEnd(t, int0, Range(DigitChars))
        dotted == int1 <= Len(t) /\ t[int1] = "."
        frac1 == IF dotted THEN SpanEnd(t, int1 + 1, Range(DigitChars)) ELSE int1
    IN \/ t = <<>>
       \/ /\ frac1 = Len(t) + 1
          /\ (int1 > int0 \/ (dotted /\ frac1 > int1 + 1))

\* ------------------------------------------------------------------------
\* cleanNumericValue
\* ------------------------------------------------------------------------
\* [SAR\s]
CurrencyChars == {"S", "A", "R"} \cup WhiteSpace

\* /^[SAR\s]*[\d,]+\.?\d*[K%]*$/
MatchesCurrencyPattern(t) ==
    LET a == SpanEnd(t, 1, CurrencyChars)
        b == SpanEnd(t, a, Range(DigitChars) \cup {","})
        c == IF b <= Len(t) /\ t[b] = "." THEN b + 1 ELSE b
        d == SpanEnd(t, c, Range(DigitChars))
    IN b > a /\ SpanEnd(t, d, {"K", "%"}) = Len(t) + 1

\* /^SAR\s+[\d,]+\.?\d*$/
MatchesSarPattern(t) ==
    LET a == SpanEnd(t, 4, WhiteSpace)
        b == SpanEnd(t, a, Range(DigitChars) \cup {","})
        c == IF b <= Len(t) /\ t[b] = "." THEN b + 1 ELSE b
    IN /\ StartsWith(t, <<"S", "A", "R">>)
       /\ a > 4
       /\ b > a
       /\ SpanEnd(t, c, Range(DigitChars)) = Len(t) + 1

\* /^-?[\d]+\.?\d*$/
MatchesPlainPattern(t) ==
    LET a == IF t # <<>> /\ t[1] = "-" THEN 2 ELSE 1
        b == SpanEnd(t, a, Range(DigitChars))
        c == IF b <= Len(t) /\ t[b] = "." THEN b + 1 ELSE b
    IN b > a /\ SpanEnd(t, c, Range(DigitChars)) = Len(t) + 1

\* /^-?[\d,.\s]+$/
MatchesSeparatorPattern(t) ==
    LET a == IF t # <<>> /\ t[1] = "-" THEN 2 ELSE 1
    IN a <= Len(t)
       /\ SpanEnd(t, a, Range(DigitChars) \cup {",", "."} \cup WhiteSpace) = Len(t) + 1

\* a name is one of the given names or ends with one of the given suffixes
NameMatches(columnName, names, suffixes) ==
    columnName \in names \/ \E x \in suffixes : EndsWith(columnName, x)

NeverNumericField(columnName) == FALSE

\* /^(.*_id|.*_amount|.*_bcy|total|sub_total|quantity|balance|age_in_days|
\* price|cost|rate|discount)$/
IsNumericField(columnName) ==
    NameMatches(columnName,
        {<<"t", "o", "t", "a", "l">>,
         <<"s", "u", "b", "_", "t", "o", "t", "a", "l">>,
         <<"q", "u", "a", "n", "t", "i", "t", "y">>,
         <<"b", "a", "l", "a", "n", "c", "e">>,
         <<"a", "g", "e", "_", "i", "n", "_", "d", "a", "y", "s">>,
         <<"p", "r", "i", "c", "e">>, <<"c", "o", "s", "t">>,
         <<"r", "a", "t", "e">>,
         <<"d", "i", "s", "c", "o", "u", "n", "t">>},
        {<<"_", "i", "d">>, <<"_", "a", "m", "o", "u", "n", "t">>,
         <<"_", "b", "c", "y">>})

\* Pattern 3: which separator is the decimal point
SeparatorsResolved(t) ==
    IF IncludesChar(t, ",") /\ IncludesChar(t, ".")
    THEN IF LastIndexOf(t, ".") > LastIndexOf(t, ",")
         THEN RemoveChars(t, {","})
         ELSE ReplaceFirst(RemoveChars(t, {"."}), ",", ".")
    ELSE IF IncludesChar(t, ",")
    THEN LET afterComma == SubSeq(t, IndexOf(t, ",") + 1, Len(t))
         IN IF Len(afterComma) <= 2 /\ afterComma # <<>>
               /\ Range(afterComma) \subseteq Range(DigitChars)
            THEN ReplaceFirst(t, ",", ".")
            ELSE RemoveChars(t, {","})
    ELSE t

\* what is returned when no pattern produced a number
NoNumber(value, t, columnName) ==
    IF IsNumericField(columnName) /\ t # <<>> /\ t # <<"-">> THEN Null ELSE value

\* trimmedValue.replace(/SAR\s+/, '').replace(/,/g, '') for a value that
\* matches /^SAR\s+.../
SarRemoved(t) == RemoveChars(SubSeq(t, SpanEnd(t, 4, WhiteSpace), Len(t)), {","})

\* the second if / else if chain: Pattern 1b, Pattern 2, Pattern 3
SecondChain(value, t, columnName) ==
    IF MatchesSarPattern(t)
    THEN IF IsNumeric(SarRemoved(t)) /\ SarRemoved(t) # <<>>
         THEN ParseFloat(SarRemoved(t))
         ELSE NoNumber(value, t, columnName)
    ELSE IF MatchesPlainPattern(t)
    THEN IF ParseFloat(t) # NaN THEN ParseFloat(t)
         ELSE NoNumber(value, t, columnName)
    ELSE IF MatchesSeparatorPattern(t)
    THEN LET num == ParseFloat(RemoveChars(SeparatorsResolved(t), WhiteSpace))
         IN IF num # NaN THEN num ELSE NoNumber(value, t, columnName)
    ELSE NoNumber(value, t, columnName)

cleanNumericValue(value, columnName) ==
    IF ~IsString(value) \/ Trim(value.str) = <<>> THEN value
    ELSE LET t == Trim(value.str)
             cleaned == RemoveChars(t, CurrencyChars \cup {",", "K", "%"})
         IN IF MatchesCurrencyPattern(t) /\ IsNumeric(cleaned) /\ cleaned # <<>>
            THEN ParseFloat(cleaned)
            ELSE SecondChain(value, t, columnName)

\* ------------------------------------------------------------------------
\* cleanDateTimeValue
\* ------------------------------------------------------------------------
\* s.includes(t) for a string t
IncludesString(s, t) ==
    \E k \in 1..(Len(s) - Len(t) + 1) : SubSeq(s, k, k + Len(t) - 1) = t

\* /^(.*_date|.*_time|date|time|created|modified|updated|transaction_date)$/
IsDateTimeField(columnName) ==
    NameMatches(columnName,
        {<<"d", "a", "t", "e">>, <<"t", "i", "m", "e">>,
         <<"c", "r", "e", "a", "t", "e", "d">>,
         <<"m", "o", "d", "i", "f", "i", "e", "d">>,
         <<"u", "p", "d", "a", "t", "e", "d">>},
        {<<"_", "d", "a", "t", "e">>, <<"_", "t", "i", "m", "e">>})

\* the characters at the given positions are all digits
DigitsAt(s, positions) == \A k \in positions : k <= Len(s) /\ IsDigit(s[k])

\* two decimal digits for a number below 100
TwoDigits(n) == <<DigitChars[(n \div 10) + 1], DigitChars[(n % 10) + 1]>>

\* /^\d{4}-\d{2}-\d{2}$/
IsIsoDate(s) ==
    Len(s) = 10 /\ DigitsAt(s, {1, 2, 3, 4, 6, 7, 9, 10}) /\ s[5] = "-" /\ s[8] = "-"

\* /^\d{4}-\d{2}-\d{2}\s+\d{2}:\d{2}:\d{2}$/
IsIsoDateTime(s) ==
    /\ Len(s) >= 19
    /\ IsIsoDate(SubSeq(s, 1, 10))
    /\ Range(SubSeq(s, 11, Len(s) - 8)) \subseteq WhiteSpace
    /\ LET t == SubSeq(s, Len(s) - 7, Len(s))
       IN DigitsAt(t, {1, 2, 4, 5, 7, 8}) /\ t[3] = ":" /\ t[6] = ":"

\* the days of a month of the calendar
DaysInMonth(year, month) ==
    IF month = 2
    THEN IF year % 4 = 0 /\ (year % 100 # 0 \/ year % 400 = 0) THEN 29 ELSE 28
    ELSE IF month \in {4, 6, 9, 11} THEN 30 ELSE 31

\* the engines new Date(string) may run on: what a string outside the
\* ECMAScript date-time format means is left to the implementation
DateEngines == {"strict", "lenient"}

InvalidDate == [valid |-> FALSE]

\* new Date("YYYY-MM-DD") followed by toISOString().substring(0, 10).  A day
\* that the month does not have is rejected by one engine and rolled over
\* into the next month by the other
IsoDate(s, engine) ==
    LET year == DigitsValue(SubSeq(s, 1, 4))
        month == DigitsValue(SubSeq(s, 6, 7))
        day == DigitsValue(SubSeq(s, 9, 10))
    IN IF month \notin 1..12 \/ day \notin 1..31 THEN InvalidDate
       ELSE IF day <= DaysInMonth(year, month)
       THEN [valid |-> TRUE, date |-> s]
       ELSE IF engine = "strict" THEN InvalidDate
       ELSE [valid |-> TRUE,
             date |-> SubSeq(s, 1, 5) \o TwoDigits(month + 1) \o <<"-">>
                      \o TwoDigits(day - DaysInMonth(year, month))]

\* new Date(s) for the trimmed value, with the clock time the ISO string
\* shows (the process runs in UTC).  A string that is no ISO date is taken
\* for some date by the lenient engine when it holds a digit
NewDate(s, engine) ==
    IF IsIsoDate(s)
    THEN IF IsoDate(s, engine).valid
         THEN [valid |-> TRUE, date |-> IsoDate(s, engine).date,
               time |-> <<"0", "0", ":", "0", "0", ":", "0", "0">>]
         ELSE InvalidDate
    ELSE IF IsIsoDateTime(s)
    THEN LET t == SubSeq(s, Len(s) - 7, Len(s))
         IN IF /\ IsoDate(SubSeq(s, 1, 10), engine).valid
               /\ DigitsValue(SubSeq(t, 1, 2)) <= 23
               /\ DigitsValue(SubSeq(t, 4, 5)) <= 59
               /\ DigitsValue(SubSeq(t, 7, 8)) <= 59
            THEN [valid |-> TRUE, date |-> IsoDate(SubSeq(s, 1, 10), engine).date,
                  time |-> t]
            ELSE InvalidDate
    ELSE IF engine = "lenient" /\ \E k \in 1..Len(s) : IsDigit(s[k])
    THEN [valid |-> TRUE,
          date |-> <<"2", "0", "0", "1", "-", "0", "1", "-", "0", "1">>,
          time |-> <<"0", "0", ":", "0", "0", ":", "0", "0">>]
    ELSE InvalidDate

\* monthMap
MonthNames ==
    <<<<"J", "a", "n">>, <<"F", "e", "b">>, <<"M", "a", "r">>, <<"A", "p", "r">>,
      <<"M", "a", "y">>, <<"J", "u", "n">>, <<"J", "u", "l">>, <<"A", "u", "g">>,
      <<"S", "e", "p">>, <<"O", "c", "t">>, <<"N", "o", "v">>, <<"D", "e", "c">>>>

\* /^(\d{1,2})\s+([A-Za-z]{3})\s+(\d{4})$/: the day, month and year groups,
\* or no match
DayMonthYear(s) ==
    LET d1 == SpanEnd(s, 1, Range(DigitChars))
        m0 == SpanEnd(s, d1, WhiteSpace)
        y0 == SpanEnd(s, m0 + 3, WhiteSpace)
    IN IF /\ d1 \in {2, 3}
          /\ m0 > d1
          /\ m0 + 2 <= Len(s)
          /\ \A k \in m0..(m0 + 2) : IsLetter(s[k])
          /\ y0 > m0 + 3
          /\ Len(s) = y0 + 3
          /\ DigitsAt(s, y0..(y0 + 3))
       THEN [matches |-> TRUE, day |-> SubSeq(s, 1, d1 - 1),
             month |-> SubSeq(s, m0, m0 + 2), year |-> SubSeq(s, y0, y0 + 3)]
       ELSE [matches |-> FALSE]

\* parsedDate
ParsedDate(t, engine) ==
    IF DayMonthYear(t).matches
    THEN LET g == DayMonthYear(t)
         IN IF \E m \in 1..12 : MonthNames[m] = g.month
            THEN NewDate(g.year \o <<"-">>
                         \o TwoDigits(CHOOSE m \in 1..12 : MonthNames[m] = g.month)
                         \o <<"-">>
                         \o (IF Len(g.day) = 1 THEN <<"0">> \o g.day ELSE g.day),
                         engine)
            ELSE InvalidDate
    ELSE NewDate(t, engine)

cleanDateTimeValue(value, columnName, engine) ==
    IF ~IsString(value) \/ Trim(value.str) = <<>> THEN value
    ELSE IF ~IsDateTimeField(columnName) THEN value
    ELSE LET t == Trim(value.str)
             parsedDate == ParsedDate(t, engine)
         IN IF ~parsedDate.valid THEN Null
            ELSE IF IncludesString(columnName, <<"_", "t", "i", "m", "e">>)
                    \/ IncludesChar(t, ":")
            THEN Str(parsedDate.date \o <<" ">> \o parsedDate.time)
            ELSE Str(parsedDate.date)

\* ------------------------------------------------------------------------
\* insertDataInBatches: the value sent for one property of a row
\* ------------------------------------------------------------------------
\* if (!rawMode)
SkipsCleaner(rawMode) == rawMode

CleanRowValue(value, cleanKey, rawMode, engine) ==
    IF value = Null \/ value = Str(<<>>) THEN Null
    ELSE IF ~IsString(value) THEN value
    ELSE LET v == Str(RemoveChars(Trim(value.str), {"\r"}))
         IN IF SkipsCleaner(rawMode) THEN v
            ELSE IF IsString(cleanDateTimeValue(v, cleanKey, engine))
            THEN cleanNumericValue(cleanDateTimeValue(v, cleanKey, engine), cleanKey)
            ELSE cleanDateTimeValue(v, cleanKey, engine)

\* const cleanKey = headerMapping[key] || this.cleanColumnName(key), with
\* the mapping of cleanHeaders(Object.keys(data[0])) for a row of one key
CleanKey(key) == cleanHeaders(<<Str(key)>>).headerMapping[key]

\* ------------------------------------------------------------------------
\* replicateTables: the raw-mode option of a table
\* ------------------------------------------------------------------------
ProblematicTables ==
    {"invoices", "credit_notes", "credit_note_items", "branch", "transfer_order_items"}

GlobalRawMode(rawMode, name) == rawMode

\* const useRawMode = rawMode || problematicTables.includes(tableName)
UseRawMode(rawMode, name) == rawMode \/ name \in ProblematicTables

\* ------------------------------------------------------------------------
\* Specification of the value cleaner and of raw mode: the two cleaners are
\* called with one value, insertDataInBatches cleans a row of one property,
\* replicateTables loads a table of one row
\* ------------------------------------------------------------------------
\* characters of the values: digits, both separators, a sign, a space, a
\* letter
ValueChars == {"1", "5", ",", ".", "-", " ", "a"}

\* values longer than the exhaustive ones: currency, grouping, percent,
\* dates in each format the date cleaner knows, a day and a month that do
\* not exist
ValueExamples ==
    {<<"S", "A", "R", " ", "3", ",", "6", "6", "1", ".", "6", "0">>,
     <<"1", ".", "2", "3", "4", ",", "5", "6">>,
     <<"1", ",", "2", "3", "4", ".", "5", "6">>,
     <<"1", ",", "2", "3", "4">>,
     <<"1", "2", ",", "5">>,
     <<"2", "5", "%">>,
     <<"0", "3", " ", "A", "u", "g", " ", "2", "0", "2", "4">>,
     <<"3", " ", "F", "o", "o", " ", "2", "0", "2", "4">>,
     <<"2", "0", "2", "4", "-", "0", "8", "-", "0", "3">>,
     <<"2", "0", "2", "4", "-", "0", "2", "-", "3", "0">>,
     <<"2", "0", "2", "4", "-", "0", "8", "-", "0", "3", " ",
       "1", "6", ":", "4", "7", ":", "4", "3">>}

\* what the cleaners are called with: null, a number, strings
CleanerInputs ==
    {Null, Index(5)}
    \cup {Str(s) : s \in Strings(ValueChars, MaxValueLen) \cup ValueExamples}

\* what parseCSVData leaves in a record: null, or a trimmed string that is
\* not empty
ParsedValues ==
    {v \in CleanerInputs :
        v = Null \/ (IsString(v) /\ v.str # <<>> /\ Trim(v.str) = v.str)}

\* the headers of the source columns
ColumnKeys ==
    {<<"T", "o", "t", "a", "l">>, <<"I", "t", "e", "m", " ", "I", "D">>,
     <<"O", "r", "d", "e", "r", " ", "D", "a", "t", "e">>,
     <<"S", "t", "a", "r", "t", " ", "T", "i", "m", "e">>,
     <<"N", "a", "m", "e">>}

\* the column names they are given
ColumnNames == {CleanKey(key) : key \in ColumnKeys}

\* a table of the forced list and one outside it
LoadedTables == {"invoices", "customers"}

InitValues ==
    /\ IdleInit
    /\ csv = <<>>
    /\ log = <<>>
    /\ ret = Null
    /\ \/ /\ cfg \in {[entry |-> "cleanDateTimeValue", value |-> v,
                       columnName |-> c, engine |-> e] :
                          v \in CleanerInputs, c \in ColumnNames, e \in DateEngines}
          /\ headers = <<>>
          /\ data = <<>>
          /\ pc = "date"
       \/ /\ cfg \in {[entry |-> "cleanNumericValue", value |-> v,
                       columnName |-> c] :
                          v \in CleanerInputs, c \in ColumnNames}
          /\ headers = <<>>
          /\ data = <<>>
          /\ pc = "numeric"
       \/ /\ cfg \in {[entry |-> "insertDataInBatches", rawMode |-> r,
                       engine |-> e] : r \in BOOLEAN, e \in DateEngines}
          /\ headers \in {<<key>> : key \in ColumnKeys}
          /\ data \in {<<[key \in Range(headers) |-> v]>> : v \in ParsedValues}
          /\ pc = "row"
       \/ /\ cfg \in {[entry |-> "replicateTables", rawMode |-> r,
                       tableName |-> t] : r \in BOOLEAN, t \in LoadedTables}
          /\ headers \in {<<key>> : key \in ColumnKeys}
          /\ data \in {<<[key \in Range(headers) |-> v]>> : v \in ParsedValues}
          /\ pc = "table"

CleanDateTimeValue ==
    /\ pc = "date"
    /\ ret' = [value |-> cleanDateTimeValue(cfg.value, cfg.columnName, cfg.engine)]
    /\ pc' = "date_done"
    /\ UNCHANGED <<cfg, csv, headers, data, log>>
    /\ UNCHANGED idleVars

CleanNumericValue ==
    /\ pc = "numeric"
    /\ ret' = [value |-> cleanNumericValue(cfg.value, cfg.columnName)]
    /\ pc' = "numeric_done"
    /\ UNCHANGED <<cfg, csv, headers, data, log>>
    /\ UNCHANGED idleVars

\* insertDataInBatches: the clean row built from the row of the batch
InsertDataInBatches ==
    /\ pc = "row"
    /\ ret' = [cleanKey |-> CleanKey(headers[1]),
               value |-> CleanRowValue(data[1][headers[1]], CleanKey(headers[1]),
                                       cfg.rawMode, cfg.engine)]
    /\ pc' = "row_done"
    /\ UNCHANGED <<cfg, csv, headers, data, log>>
    /\ UNCHANGED idleVars

\* replicateTables: the options the table is loaded with
ReplicateTables ==
    /\ pc = "table"
    /\ ret' = [rawMode |-> UseRawMode(cfg.rawMode, cfg.tableName)]
    /\ pc' = "import"
    /\ UNCHANGED <<cfg, csv, headers, data, log>>
    /\ UNCHANGED idleVars

\* replicateTableEnhanced, importCSVWithCOPY: the records are written as CSV
\* text and the destination stores the text
ImportCSVWithCOPY ==
    /\ pc = "import"
    /\ ret' = [rawMode |-> ret.rawMode,
               cleanedHeaders |-> cleanHeaders(AsStrings(headers)).cleanedHeaders,
               rows |-> CopiedRows(cleanHeaders(AsStrings(headers)).cleanedHeaders,
                                   FullCSVData(headers, data))]
    /\ pc' = "imported"
    /\ UNCHANGED <<cfg, csv, headers, data, log>>
    /\ UNCHANGED idleVars

NextValues ==
    \/ CleanDateTimeValue
    \/ CleanNumericValue
    \/ InsertDataInBatches
    \/ ReplicateTables
    \/ ImportCSVWithCOPY

SpecValues == InitValues /\ [][NextValues]_vars

\* ------------------------------------------------------------------------
\* The bulk-load engine when every destination call eventually returns or
\* fails: the process takes its next step as long as it has one.  The
\* environment (schema cache, other writers) is under no such obligation
\* ------------------------------------------------------------------------
Program ==
    \/ ReplicateTables_ForEach
    \/ ReplicateTables_Attempt
    \/ ReplicateTables_AfterAttempt
    \/ ReplicateTables_Categorize
    \/ ReplicateTables_Return
    \/ CopyPoolCheck
    \/ CopyTestConnection
    \/ CopyParse
    \/ CopyConnect
    \/ CopyCheckExists
    \/ CopyGetColumns
    \/ CopyAddColumn
    \/ CopyTruncate
    \/ CopyDrop
    \/ CopyCreate
    \/ CopyTransfer
    \/ CopyCount
    \/ ReplicateTable_Parse
    \/ ReplicateTable_CheckExists
    \/ ReplicateTable_Truncate
    \/ ReplicateTable_Drop
    \/ CreateTable_Rpc
    \/ CreateTable_Direct
    \/ ReplicateTable_ManualCreate
    \/ VerifyTableExistsWithRetry
    \/ InsertBatch
    \/ InsertDataInBatches_Return
    \/ ReplicateTable_Result

FairSpec == Init /\ [][Next]_vars /\ WF_vars(Program)

\* ------------------------------------------------------------------------
\* Specification of the batch loop on its own: insertDataInBatches is given
\* the records of up to MaxBatches batches for a table that exists and has
\* the records' columns; the REST layer knows the table, or has not learnt
\* of it yet
\* ------------------------------------------------------------------------
MaxBatches == 10

\* record counts that end a batch of one record or a full batch
LoopRecordCounts ==
    {(b - 1) * BatchSize + r : b \in 1..MaxBatches, r \in {1, BatchSize}}

InitBatches ==
    /\ cfg = [entry |-> "insertDataInBatches", preserveViews |-> FALSE,
              retryCount |-> 1, tables |-> 1, pgPool |-> TRUE]
    /\ dest \in {[t \in TableNames |-> IF t = 1 THEN d ELSE Absent] :
                    d \in {Existing, [Existing EXCEPT !.cached = FALSE]}}
    /\ pc = "insert"
    /\ tableName = 1
    /\ csv \in {[isString |-> TRUE, headers |-> {"a"}, records |-> n] :
                   n \in LoopRecordCounts}
    /\ ti = 0
    /\ attempts = 0
    /\ lastResult = Null
    /\ results = [success |-> <<>>, failed |-> <<>>, totalRecords |-> 0]
    /\ headers = csv.headers
    /\ data = csv.records
    /\ client = FALSE
    /\ missingColumns = {}
    /\ attempt = 0
    /\ tableResult = Null
    /\ i = 0
    /\ totalInserted = 0
    /\ errors = <<>>
    /\ insertResult = Null
    /\ ret = Null
    /\ thrown = FALSE
    /\ log = <<>>
    /\ attemptLog = <<>>
    /\ hist = StartHist(dest[1])
    /\ extWrites = 0

NextBatches ==
    \/ InsertBatch
    \/ InsertDataInBatches_Return

SpecBatches == InitBatches /\ [][NextBatches]_vars

\* ------------------------------------------------------------------------
\* Specification of table naming: replicateTables loads the tables of a map
\* with two keys, one after the other, each into the destination table its
\* key is normalized to
\* ------------------------------------------------------------------------
MaxTableNameLen == 2

\* characters of the keys: a lower-case and an upper-case letter, a space,
\* an underscore, a non-ASCII letter
TableNameChars == {"a", "A", " ", "_", "U+00E9"}

\* the names of the tables: strings that are not empty
LogicalNames == Strings(TableNameChars, MaxTableNameLen) \ {<<>>}

\* the keys of an object are pairwise distinct
TableDataMaps == {<<m, n>> : m, n \in LogicalNames} \ {<<n, n>> : n \in LogicalNames}

\* const cleanTableName = this.cleanColumnName(tableName)
CleanTableName(name) == cleanColumnName(Str(name), Null)

namingIdleVars == <<tableName, csv, attempts, lastResult, results, headers,
                    data, client, missingColumns, attempt, tableResult, i,
                    totalInserted, errors, insertResult, ret, thrown,
                    attemptLog, hist, extWrites>>

InitNaming ==
    /\ cfg \in {[entry |-> "replicateTables", names |-> m] : m \in TableDataMaps}
    /\ dest = EmptyObject
    /\ pc = "rt_for"
    /\ ti = 0
    /\ log = <<>>
    /\ tableName = 1
    /\ csv = <<>>
    /\ attempts = 0
    /\ lastResult = Null
    /\ results = [success |-> <<>>, failed |-> <<>>, totalRecords |-> 0]
    /\ headers = <<>>
    /\ data = <<>>
    /\ client = FALSE
    /\ missingColumns = {}
    /\ attempt = 0
    /\ tableResult = Null
    /\ i = 0
    /\ totalInserted = 0
    /\ errors = <<>>
    /\ insertResult = Null
    /\ ret = Null
    /\ thrown = FALSE
    /\ attemptLog = <<>>
    /\ hist = NoHist
    /\ extWrites = 0

\* one table of the map is loaded, successfully: its destination table is
\* created or truncated and then holds the rows of this table, and of no
\* other
LoadNamedTable ==
    /\ pc = "rt_for"
    /\ ti < Len(cfg.names)
    /\ LET name == cfg.names[ti + 1]
           clean == CleanTableName(name)
       IN /\ dest' = [t \in DOMAIN dest \cup {clean} |->
                         IF t = clean THEN name ELSE dest[t]]
          /\ log' = Append(log, [tableName |-> name, cleanTableName |-> clean])
    /\ ti' = ti + 1
    /\ UNCHANGED <<cfg, pc>>
    /\ UNCHANGED namingIdleVars

\* return results
ReturnNamedTables ==
    /\ pc = "rt_for"
    /\ ti >= Len(cfg.names)
    /\ pc' = "done"
    /\ UNCHANGED <<cfg, dest, ti, log>>
    /\ UNCHANGED namingIdleVars

NextNaming ==
    \/ LoadNamedTable
    \/ ReturnNamedTables

SpecNaming == InitNaming /\ [][NextNaming]_vars

\* ------------------------------------------------------------------------
\* Specification of overlapping runs: the scheduled run and a manually
\* triggered run of one process each load one table through the one pool of
\* the one SupabaseBulkClient.  Here pc, ret and thrown hold one value per
\* run, client is the set of runs that hold a client of the pool, and log
\* lists what the runs did to the destination, in the order it happened
\* ------------------------------------------------------------------------
MaxSharedTables == 2
MaxLoadRecords == 2

\* new Pool({ ..., max: 1, ... })
PoolMax == 1

\* the run of the cron callback and the run of triggerReplication
Loads == {"scheduled", "manual"}

SharedTables == 1..MaxSharedTables

\* the rows of a table, by the run that wrote them; "earlier" rows are
\* there from before both runs
Writers == Loads \cup {"earlier"}
NoRows == [w \in Writers |-> 0]
AbsentTable == [exists |-> FALSE, rows |-> NoRows]
EarlierTable == [exists |-> TRUE, rows |-> [NoRows EXCEPT !["earlier"] = 1]]

\* SELECT COUNT(*)
RowsOf(d) == d.rows["scheduled"] + d.rows["manual"] + d.rows["earlier"]

PoolAlwaysIdle(holders) == TRUE

\* pgPool.connect() resolves when fewer than max clients are checked out,
\* and waits otherwise
PoolHasIdle(holders) == Cardinality(holders) < PoolMax

\* the statements a load sends on its client
HeldOps == {"exists", "truncate", "drop", "create", "copy", "count"}

poolIdleVars == <<tableName, csv, ti, attempts, lastResult, results, headers,
                  data, missingColumns, attempt, tableResult, i, totalInserted,
                  errors, insertResult, attemptLog, hist, extWrites>>

InitPool ==
    /\ cfg \in {[entry |-> "replicateAllTables", loads |-> l] :
                  l \in [Loads -> [tableName : SharedTables,
                                   records : 0..MaxLoadRecords,
                                   preserveViews : BOOLEAN]]}
    /\ dest \in [SharedTables -> {AbsentTable, EarlierTable}]
    /\ pc = [p \in Loads |-> "idle"]
    /\ client = {}
    /\ ret = [p \in Loads |-> Null]
    /\ thrown = [p \in Loads |-> FALSE]
    /\ log = <<>>
    /\ tableName = 1
    /\ csv = <<>>
    /\ ti = 0
    /\ attempts = 0
    /\ lastResult = Null
    /\ results = [success |-> <<>>, failed |-> <<>>, totalRecords |-> 0]
    /\ headers = <<>>
    /\ data = <<>>
    /\ missingColumns = {}
    /\ attempt = 0
    /\ tableResult = Null
    /\ i = 0
    /\ totalInserted = 0
    /\ errors = <<>>
    /\ insertResult = Null
    /\ attemptLog = <<>>
    /\ hist = NoHist
    /\ extWrites = 0

\* the table of a run, and its state
TableOf(p) == cfg.loads[p].tableName
Shared(p) == dest[TableOf(p)]

\* the run goes on at the given place
Goto(p, place) == pc' = [pc EXCEPT ![p] = place]

\* the statement is written to the log
Sent(p, op) == log' = Append(log, [load |-> p, op |-> op])

\* the exception leaves importCSVWithCOPY
Throws(p) ==
    /\ thrown' = [thrown EXCEPT ![p] = TRUE]
    /\ Goto(p, "done")

\* the cron callback: await this.replicateAllTables()
ScheduledRun ==
    /\ pc["scheduled"] = "idle"
    /\ Goto("scheduled", "copy_test")
    /\ Sent("scheduled", "start")
    /\ UNCHANGED <<cfg, dest, client, ret, thrown>>
    /\ UNCHANGED poolIdleVars

\* triggerReplication: await this.replicateAllTables(), whether or not the
\* scheduled run is under way
TriggerReplication ==
    /\ pc["manual"] = "idle"
    /\ Goto("manual", "copy_test")
    /\ Sent("manual", "start")
    /\ UNCHANGED <<cfg, dest, client, ret, thrown>>
    /\ UNCHANGED poolIdleVars

\* const testClient = await this.pgPool.connect()
LoadTestConnect(p) ==
    /\ pc[p] = "copy_test"
    /\ PoolHasIdle(client)
    /\ client' = client \cup {p}
    /\ Goto(p, "copy_select")
    /\ UNCHANGED <<cfg, dest, ret, thrown, log>>
    /\ UNCHANGED poolIdleVars

\* await testClient.query('SELECT 1'); testClient.release().  When the
\* query fails the client is not given back
LoadTestQuery(p) ==
    /\ pc[p] = "copy_select"
    /\ \/ /\ client' = client \ {p}
          /\ Goto(p, "copy_parse")
          /\ UNCHANGED thrown
       \/ /\ Throws(p)
          /\ UNCHANGED client
    /\ UNCHANGED <<cfg, dest, ret, log>>
    /\ UNCHANGED poolIdleVars

\* parseCSVData, and the early return for a text without records
LoadParse(p) ==
    /\ pc[p] = "copy_parse"
    /\ IF cfg.loads[p].records = 0
       THEN /\ ret' = [ret EXCEPT ![p] = [success |-> TRUE, records |-> 0]]
            /\ Goto(p, "done")
       ELSE /\ Goto(p, "copy_connect")
            /\ UNCHANGED ret
    /\ UNCHANGED <<cfg, dest, client, thrown, log>>
    /\ UNCHANGED poolIdleVars

\* const client = await this.pgPool.connect()
LoadConnect(p) ==
    /\ pc[p] = "copy_connect"
    /\ PoolHasIdle(client)
    /\ client' = client \cup {p}
    /\ Goto(p, IF cfg.loads[p].preserveViews THEN "copy_exists" ELSE "copy_drop")
    /\ UNCHANGED <<cfg, dest, ret, thrown, log>>
    /\ UNCHANGED poolIdleVars

\* connectionTimeoutMillis: a connect that is still waiting is rejected
LoadConnectTimeout(p) ==
    /\ pc[p] \in {"copy_test", "copy_connect"}
    /\ ~PoolHasIdle(client)
    /\ Throws(p)
    /\ UNCHANGED <<cfg, dest, client, ret, log>>
    /\ UNCHANGED poolIdleVars

\* SELECT EXISTS (... information_schema.tables ...)
LoadCheckExists(p) ==
    /\ pc[p] = "copy_exists"
    /\ Goto(p, IF Shared(p).exists THEN "copy_truncate" ELSE "copy_create")
    /\ Sent(p, "exists")
    /\ UNCHANGED <<cfg, dest, client, ret, thrown>>
    /\ UNCHANGED poolIdleVars

\* a statement fails; finally { client.release() }
LoadQueryFails(p) ==
    /\ pc[p] \in {"copy_exists", "copy_truncate", "copy_drop", "copy_create",
                  "copy_transfer", "copy_count"}
    /\ client' = client \ {p}
    /\ Throws(p)
    /\ UNCHANGED <<cfg, dest, ret, log>>
    /\ UNCHANGED poolIdleVars

\* TRUNCATE TABLE
LoadTruncate(p) ==
    /\ pc[p] = "copy_truncate"
    /\ Shared(p).exists
    /\ dest' = [dest EXCEPT ![TableOf(p)].rows = NoRows]
    /\ Goto(p, "copy_transfer")
    /\ Sent(p, "truncate")
    /\ UNCHANGED <<cfg, client, ret, thrown>>
    /\ UNCHANGED poolIdleVars

\* DROP TABLE IF EXISTS ... CASCADE
LoadDrop(p) ==
    /\ pc[p] = "copy_drop"
    /\ dest' = [dest EXCEPT ![TableOf(p)] = AbsentTable]
    /\ Goto(p, "copy_create")
    /\ Sent(p, "drop")
    /\ UNCHANGED <<cfg, client, ret, thrown>>
    /\ UNCHANGED poolIdleVars

\* CREATE TABLE
LoadCreate(p) ==
    /\ pc[p] = "copy_create"
    /\ ~Shared(p).exists
    /\ dest' = [dest EXCEPT ![TableOf(p)].exists = TRUE]
    /\ Goto(p, "copy_transfer")
    /\ Sent(p, "create")
    /\ UNCHANGED <<cfg, client, ret, thrown>>
    /\ UNCHANGED poolIdleVars

\* COPY ... FROM STDIN
LoadTransfer(p) ==
    /\ pc[p] = "copy_transfer"
    /\ Shared(p).exists
    /\ dest' = [dest EXCEPT ![TableOf(p)].rows[p] = @ + cfg.loads[p].records]
    /\ Goto(p, "copy_count")
    /\ Sent(p, "copy")
    /\ UNCHANGED <<cfg, client, ret, thrown>>
    /\ UNCHANGED poolIdleVars

\* SELECT COUNT(*), the result, and finally { client.release() }
LoadCount(p) ==
    /\ pc[p] = "copy_count"
    /\ Shared(p).exists
    /\ ret' = [ret EXCEPT ![p] =
                  [success |-> RowsOf(Shared(p)) = cfg.loads[p].records,
                   records |-> cfg.loads[p].records,
                   inserted |-> RowsOf(Shared(p))]]
    /\ client' = client \ {p}
    /\ Goto(p, "done")
    /\ Sent(p, "count")
    /\ UNCHANGED <<cfg, dest, thrown>>
    /\ UNCHANGED poolIdleVars

NextPool ==
    \/ ScheduledRun
    \/ TriggerReplication
    \/ \E p \in Loads :
          \/ LoadTestConnect(p)
          \/ LoadTestQuery(p)
          \/ LoadParse(p)
          \/ LoadConnect(p)
          \/ LoadConnectTimeout(p)
          \/ LoadCheckExists(p)
          \/ LoadQueryFails(p)
          \/ LoadTruncate(p)
          \/ LoadDrop(p)
          \/ LoadCreate(p)
          \/ LoadTransfer(p)
          \/ LoadCount(p)

SpecPool == InitPool /\ [][NextPool]_vars

\* ------------------------------------------------------------------------
\* Specification of the scheduler of BulkReplicator: startScheduler,
\* stopScheduler and updateSchedulerConfig are called in any order, the
\* cron task fires and the run it started completes at any time
\* ------------------------------------------------------------------------
MaxCronTasks == 3

\* this.schedulerState
schedulerState == hist
\* the tasks cron.schedule has created and task.stop() has not stopped
cronTasks == client
\* how many tasks cron.schedule has created
tasksCreated == attempts
\* the tasks whose callback is under way
runsInProgress == data

\* cron expressions, by their fields: a daily time (the default), one with
\* a wildcard hour, and a text that is no cron expression
ScheduleTimes == {<<"0", "1", "*", "*", "*">>, <<"0", "*", "*", "*", "*">>,
                  <<"never">>}
Timezones == {"UTC", "Asia/Riyadh"}

\* cron.schedule throws for a text that is no cron expression
IsCronExpression(scheduleTime) == Len(scheduleTime) = 5

\* calculateNextRun: a Date in every case.  The text is split at the
\* spaces; with an hour and a minute that are no wildcards the date is the
\* next time of day they name (an invalid Date when they are no numbers),
\* and the next day otherwise
calculateNextRun(scheduleTime) ==
    LET minute == IF Len(scheduleTime) >= 1 THEN scheduleTime[1] ELSE "undefined"
        hour == IF Len(scheduleTime) >= 2 THEN scheduleTime[2] ELSE "undefined"
    IN IF hour # "*" /\ minute # "*"
       THEN [date |-> IF IsDigit(hour) /\ IsDigit(minute)
                      THEN <<hour, ":", minute>> ELSE <<"Invalid Date">>]
       ELSE [date |-> <<"now + 24h">>]

schedulerIdleVars == <<cfg, dest, pc, tableName, csv, ti, lastResult, results,
                       headers, missingColumns, attempt, tableResult, i,
                       totalInserted, errors, insertResult, log, attemptLog,
                       extWrites>>

InitScheduler ==
    /\ schedulerState = [isRunning |-> FALSE,
                         scheduleTime |-> <<"0", "1", "*", "*", "*">>,
                         timezone |-> "UTC", task |-> Null, lastRun |-> Null,
                         lastRunResult |-> Null, nextRun |-> Null]
    /\ cronTasks = {}
    /\ tasksCreated = 0
    /\ runsInProgress = {}
    /\ ret = Null
    /\ thrown = FALSE
    /\ cfg = [entry |-> "scheduler"]
    /\ dest = EmptyObject
    /\ pc = "idle"
    /\ tableName = 1
    /\ csv = <<>>
    /\ ti = 0
    /\ lastResult = Null
    /\ results = [success |-> <<>>, failed |-> <<>>, totalRecords |-> 0]
    /\ headers = <<>>
    /\ missingColumns = {}
    /\ attempt = 0
    /\ tableResult = Null
    /\ i = 0
    /\ totalInserted = 0
    /\ errors = <<>>
    /\ insertResult = Null
    /\ log = <<>>
    /\ attemptLog = <<>>
    /\ extWrites = 0

\* the state stopScheduler leaves
Stopped(state) ==
    [state EXCEPT !.task = Null, !.isRunning = FALSE, !.nextRun = Null]

\* the tasks that stopScheduler leaves scheduled: if (task) task.stop()
StoppedTasks(state, tasks) ==
    IF state.task # Null THEN tasks \ {state.task.id} ELSE tasks

\* the state startScheduler leaves when it creates task number id
Started(state, id) ==
    [state EXCEPT !.task = [id |-> id], !.isRunning = TRUE,
                  !.nextRun = calculateNextRun(state.scheduleTime)]

\* startScheduler, from the given state and tasks: the state, the tasks and
\* the number of created tasks it leaves, and what the call gives.  The
\* promise is rejected when cron.schedule throws, and may be rejected by
\* getConfigurationCount after the state is set
StartOutcomes(state, tasks, created) ==
    IF state.isRunning
    THEN {[state |-> state, tasks |-> tasks, created |-> created,
           thrown |-> FALSE, value |-> FALSE]}
    ELSE IF ~IsCronExpression(state.scheduleTime)
    THEN {[state |-> state, tasks |-> tasks, created |-> created,
           thrown |-> TRUE, value |-> FALSE]}
    ELSE {[state |-> Started(state, created + 1),
           tasks |-> tasks \cup {created + 1}, created |-> created + 1,
           thrown |-> t, value |-> ~t] : t \in BOOLEAN}

StartScheduler ==
    /\ tasksCreated < MaxCronTasks
    /\ \E o \in StartOutcomes(schedulerState, cronTasks, tasksCreated) :
          /\ schedulerState' = o.state
          /\ cronTasks' = o.tasks
          /\ tasksCreated' = o.created
          /\ thrown' = o.thrown
          /\ ret' = [call |-> "startScheduler",
                     wasRunning |-> schedulerState.isRunning,
                     created |-> o.created - tasksCreated,
                     value |-> o.value]
    /\ UNCHANGED runsInProgress
    /\ UNCHANGED schedulerIdleVars

StopScheduler ==
    /\ schedulerState' = Stopped(schedulerState)
    /\ cronTasks' = StoppedTasks(schedulerState, cronTasks)
    /\ thrown' = FALSE
    /\ ret' = [call |-> "stopScheduler", wasRunning |-> schedulerState.isRunning,
               created |-> 0, value |-> TRUE]
    /\ UNCHANGED <<tasksCreated, runsInProgress>>
    /\ UNCHANGED schedulerIdleVars

UpdateSchedulerConfig ==
    /\ tasksCreated < MaxCronTasks
    /\ \E scheduleTime \in ScheduleTimes, timezone \in Timezones :
          LET wasRunning == schedulerState.isRunning
              stopped == IF wasRunning THEN Stopped(schedulerState)
                         ELSE schedulerState
              tasks == IF wasRunning THEN StoppedTasks(schedulerState, cronTasks)
                       ELSE cronTasks
              updated == [stopped EXCEPT !.scheduleTime = scheduleTime,
                                         !.timezone = timezone]
          IN IF wasRunning
             THEN \E o \in StartOutcomes(updated, tasks, tasksCreated) :
                     /\ schedulerState' = o.state
                     /\ cronTasks' = o.tasks
                     /\ tasksCreated' = o.created
                     /\ thrown' = o.thrown
                     /\ ret' = [call |-> "updateSchedulerConfig",
                                wasRunning |-> TRUE,
                                created |-> o.created - tasksCreated,
                                value |-> o.value]
             ELSE /\ schedulerState' = updated
                  /\ cronTasks' = tasks
                  /\ thrown' = FALSE
                  /\ ret' = [call |-> "updateSchedulerConfig",
                             wasRunning |-> FALSE, created |-> 0,
                             value |-> TRUE]
                  /\ UNCHANGED tasksCreated
    /\ UNCHANGED runsInProgress
    /\ UNCHANGED schedulerIdleVars

\* a scheduled task fires: this.schedulerState.lastRun = new Date(), and
\* replicateAllTables is awaited
ScheduledRunStarts ==
    /\ \E t \in cronTasks \ runsInProgress :
          /\ runsInProgress' = runsInProgress \cup {t}
          /\ schedulerState' = [schedulerState EXCEPT !.lastRun = [run |-> t]]
    /\ UNCHANGED <<cronTasks, tasksCreated, ret, thrown>>
    /\ UNCHANGED schedulerIdleVars

\* replicateAllTables is back, or has thrown: lastRunResult is set, and
\* this.schedulerState.nextRun = this.calculateNextRun()
ScheduledRunCompletes ==
    /\ \E t \in runsInProgress, success \in BOOLEAN :
          /\ runsInProgress' = runsInProgress \ {t}
          /\ schedulerState' =
                [schedulerState EXCEPT
                    !.lastRunResult = [success |-> success],
                    !.nextRun = calculateNextRun(schedulerState.scheduleTime)]
    /\ UNCHANGED <<cronTasks, tasksCreated, ret, thrown>>
    /\ UNCHANGED schedulerIdleVars

NextScheduler ==
    \/ StartScheduler
    \/ StopScheduler
    \/ UpdateSchedulerConfig
    \/ ScheduledRunStarts
    \/ ScheduledRunCompletes

SpecScheduler == InitScheduler /\ [][NextScheduler]_vars

\* ------------------------------------------------------------------------
\* Vocabulary of the claims about the data path
\* ------------------------------------------------------------------------
\* the scanned data lines whose token count is the header count
KeptLines == SelectSeq(log, LAMBDA e : Len(e.values) = Len(headers))

\* no header text occurs at two positions
DistinctHeaders ==
    \A j, k \in 1..Len(headers) : headers[j] = headers[k] => j = k

\* ------------------------------------------------------------------------
\* C11.  parseCSVData returns exactly the data lines whose token count is
\* the header count, in input order, and each returned record holds the
\* line's i-th value under the i-th header: a line with another token count
\* is dropped without ending the parse, and no value of a kept line is
\* merged with or shifted onto another.
\* ------------------------------------------------------------------------
C11_KeptLinesKeepTheirFields ==
    pc = "parsed" =>
        /\ Len(data) = Len(KeptLines)
        /\ \A k \in 1..Len(KeptLines) : \A j \in 1..Len(headers) :
              data[k][headers[j]] = FieldValue(KeptLines[k].values[j])

\* ------------------------------------------------------------------------
\* C12.  The field scan of a physical line yields one token per field of
\* the line, whatever the number of fields and wherever an empty field is:
\* a comma inside a quoted field separates nothing, the quotes around a
\* quoted field are stripped, and a doubled quote inside a quoted field is
\* one quote character of the value.
\* ------------------------------------------------------------------------
C12_OneTokenPerField ==
    pc = "parsed" =>
        \A k \in 1..Len(log) :
            CsvFields(log[k].line).ok =>
                log[k].values =
                    [j \in 1..Len(CsvFields(log[k].line).fields) |->
                        Trim(CsvFields(log[k].line).fields[j].text)]

\* ------------------------------------------------------------------------
\* C13.  Records the parser produced, written as CSV text the way the
\* streaming load writes them and parsed again, come back as the same
\* number of records with the same value at every position, in the same
\* order.
\* ------------------------------------------------------------------------
C13_SerializeParseRoundTrip ==
    pc = "reparsed" =>
        /\ Len(ret.parsed.data) = Len(data)
        /\ \A k \in 1..Len(data) :
              /\ DOMAIN ret.parsed.data[k] = Range(ret.cleanedHeaders)
              /\ \A j \in 1..Len(headers) :
                    ret.parsed.data[k][ret.cleanedHeaders[j]] = data[k][headers[j]]

\* ------------------------------------------------------------------------
\* C15.  Every header position keeps a column of its own through parsing,
\* table creation and load, also when one header text stands at two
\* positions: the created table has a distinct column for each position,
\* and the value parsed at a position of a kept line is the value stored in
\* that position's column, so no two positions share a column and no
\* position's value is lost.
\* ------------------------------------------------------------------------
C15_EachPositionKeepsItsColumn ==
    /\ pc = "sql" =>
          \A j, k \in 1..Len(headers) : ret.columns[j] = ret.columns[k] => j = k
    /\ pc = "copied" =>
          /\ \A j, k \in 1..Len(headers) :
                ret.cleanedHeaders[j] = ret.cleanedHeaders[k] => j = k
          /\ Len(ret.rows) = Len(KeptLines)
          /\ \A k \in 1..Len(KeptLines) : \A j \in 1..Len(headers) :
                ret.rows[k][j] = FieldValue(KeptLines[k].values[j])

\* ------------------------------------------------------------------------
\* Vocabulary of the claims about the normalizer
\* ------------------------------------------------------------------------
\* the name cleanColumnName gives the header at position k of the list
CleanNameAt(k) == cleanColumnName(headers[k], Index(k - 1))

\* the final names of the positions before k
EarlierNames(k) == {ret.cleanedHeaders[j] : j \in 1..(k - 1)}

\* name_n
Suffixed(name, n) == name \o <<"_">> \o Decimal(n)

C16_FinalNamesAreIdentifiers ==
    pc = "cleaned" =>
        \A k \in 1..Len(headers) :
            /\ ret.cleanedHeaders[k] # <<>>
            /\ Range(ret.cleanedHeaders[k]) \subseteq NameChars
            /\ Len(ret.cleanedHeaders[k]) <= MaxNameLength

\* ------------------------------------------------------------------------
\* C17.  cleanColumnName, called with a position, applies its rules in this
\* order.  A null, empty or blank header gives col_<position>_empty.
\* Otherwise a header with a non-ASCII character gives col_<position>_ and
\* eight hexadecimal digits that are a function of the header text.
\* Otherwise the header is lower-cased, every character outside [a-z0-9_]
\* becomes _, runs of _ become one _, a leading and a trailing _ are
\* dropped, and the result is cut to 63 characters: the name is the
\* header's words of [a-z0-9] joined by single underscores, cut to 63
\* characters, and col_<position>_cleaned when there is no word.
\* ------------------------------------------------------------------------
C17_RulesInOrder ==
    (pc = "named" /\ cfg.fallbackIndex # Null) =>
        LET h == cfg.columnName
            out == ret.name
            prefix == <<"c", "o", "l", "_">> \o Decimal(cfg.fallbackIndex.num) \o <<"_">>
        IN IF ~IsString(h) \/ \A k \in 1..Len(h.str) : h.str[k] \in WhiteSpace
           THEN out = prefix \o <<"e", "m", "p", "t", "y">>
           ELSE IF \E k \in 1..Len(h.str) : h.str[k] \in NonAsciiChars
           THEN /\ Len(out) = Len(prefix) + 8
                /\ SubSeq(out, 1, Len(prefix)) = prefix
                /\ \A k \in (Len(prefix) + 1)..Len(out) : out[k] \in Range(HexChars)
                /\ SubSeq(out, Len(prefix) + 1, Len(out)) = Md5Hex8(h.str)
           ELSE LET low == ToLowerCase(h.str)
                    word == {k \in 1..Len(low) : low[k] \in NameChars \ {"_"}}
                    later == {k \in word : (k - 1) \notin word
                                           /\ \E j \in word : j < k}
                    at(k) == Cardinality({m \in word : m <= k})
                             + Cardinality({m \in later : m <= k})
                IN IF word = {}
                   THEN out = prefix \o <<"c", "l", "e", "a", "n", "e", "d">>
                   ELSE /\ Len(out) = Min(MaxNameLength,
                                          Cardinality(word) + Cardinality(later))
                        /\ \A k \in word :
                              /\ at(k) <= MaxNameLength => out[at(k)] = low[k]
                              /\ (k \in later /\ at(k) - 1 <= MaxNameLength)
                                    => out[at(k) - 1] = "_"

\* a header of Latin characters, longer than 63 characters, with an
\* upper-case letter and a run of two blanks, cleaned at a position
C17_Witness ==
    /\ pc = "named"
    /\ cfg.fallbackIndex # Null
    /\ IsString(cfg.columnName)
    /\ Len(cfg.columnName.str) > MaxNameLength
    /\ SubSeq(cfg.columnName.str, 1, 3) = <<"B", " ", " ">>
    /\ Len(ret.name) = MaxNameLength
    /\ SubSeq(ret.name, 1, 3) = <<"b", "_", "x">>

\* ------------------------------------------------------------------------
\* Vocabulary of the claims about the value cleaner
\* ------------------------------------------------------------------------
\* the column names of the inputs that are numeric candidates, and those
\* that are date candidates
NumericCandidates ==
    {<<"t", "o", "t", "a", "l">>, <<"i", "t", "e", "m", "_", "i", "d">>}
DateCandidates ==
    {<<"o", "r", "d", "e", "r", "_", "d", "a", "t", "e">>,
     <<"s", "t", "a", "r", "t", "_", "t", "i", "m", "e">>}

\* a string in the date or the timestamp format of the destination
IsDateText(v) == IsString(v) /\ (IsIsoDate(v.str) \/ IsIsoDateTime(v.str))

\* the value of the one property of the one row
RowValue == data[1][headers[1]]

\* the largest position of a non-empty set of positions
Last(positions) == CHOOSE k \in positions : \A j \in positions : j <= k

\* a run of digits, commas and periods that starts and ends with a digit
IsSeparatedNumber(body) ==
    /\ body # <<>>
    /\ Range(body) \subseteq Range(DigitChars) \cup {",", "."}
    /\ IsDigit(body[1])
    /\ IsDigit(body[Len(body)])

C19_SeparatorsReadByPosition ==
    pc = "numeric_done" /\ IsString(cfg.value) =>
        LET t == cfg.value.str
            body == IF StartsWith(t, <<"S", "A", "R", " ">>)
                    THEN SubSeq(t, 5, Len(t)) ELSE t
            commas == {k \in 1..Len(body) : body[k] = ","}
            periods == {k \in 1..Len(body) : body[k] = "."}
        IN IsSeparatedNumber(body) =>
              /\ (commas # {} /\ Cardinality(periods) = 1
                  /\ Last(periods) > Last(commas)) =>
                    ret.value = ParseFloat(RemoveChars(body, {","}))
              /\ (periods # {} /\ Cardinality(commas) = 1
                  /\ Last(commas) > Last(periods)) =>
                    ret.value = ParseFloat(ReplaceFirst(RemoveChars(body, {"."}),
                                                        ",", "."))
              /\ (Cardinality(commas) = 1 /\ periods = {}) =>
                    IF Len(body) - Last(commas) <= 2
                    THEN ret.value = ParseFloat(ReplaceFirst(body, ",", "."))
                    ELSE ret.value = ParseFloat(RemoveChars(body, {","}))

\* ------------------------------------------------------------------------
\* C20.  For a table whose name is in the forced-raw-mode list the load
\* runs in raw mode whatever the global raw-mode setting is.  In raw mode
\* no value passes through the value cleaner: the destination receives
\* every value that is not null as the text that was parsed (and null as
\* null), in the streaming load and in the batched load.
\* ------------------------------------------------------------------------
C20_ForcedTablesLoadRaw ==
    /\ (pc \in {"import", "imported"} /\ cfg.tableName \in ProblematicTables) =>
          ret.rawMode
    /\ (pc = "imported" /\ ret.rawMode) => ret.rows = <<<<RowValue>>>>
    /\ (pc = "row_done" /\ cfg.rawMode) => ret.value = RowValue

\* a table of the list, loaded with the global setting off: a value the
\* cleaner would turn into the number 1234 is stored as its text
C20_Witness ==
    /\ pc = "imported"
    /\ cfg.tableName = "invoices"
    /\ ~cfg.rawMode
    /\ ret.rawMode
    /\ ret.cleanedHeaders = <<<<"t", "o", "t", "a", "l">>>>
    /\ RowValue = Str(<<"1", ",", "2", "3", "4">>)
    /\ ret.rows = <<<<RowValue>>>>

\* ------------------------------------------------------------------------
\* Vocabulary of the claims about a table's load inside a run
\* ------------------------------------------------------------------------
\* the stages of the streaming load
SchemaStage == {"copy_connect", "copy_exists", "copy_columns", "copy_alter",
                "copy_drop", "copy_create"}
LoadingStage == {"copy_transfer", "copy_count"}

\* replicateTables has started a load of the current table
LoadStarted == cfg.entry = "replicateTables" /\ pc = "copy_pool"

\* the load has handed its result to replicateTables
LoadEnded == pc = "rt_after"

\* ------------------------------------------------------------------------
\* C21.  Provided every destination call eventually returns or fails, every
\* table load replicateTables starts ends with a result that is succeeded,
\* partially succeeded or failed, and one of them only.  On the way the
\* load enters schema preparation from parsing only and loading from schema
\* preparation only, and a load of a text with records ends from loading
\* only.  A further attempt for a table is started only while attempts
\* remain and only when the table has no succeeded or partially succeeded
\* result.
\* ------------------------------------------------------------------------
C21_LoadRunsToOneOutcome ==
    /\ [](LoadStarted => <>LoadEnded)
    /\ [](LoadEnded => ~(Truthy(lastResult, "success")
                         /\ Truthy(lastResult, "partialSuccess")))
    /\ [][cfg.entry = "replicateTables" =>
            /\ (pc' \in SchemaStage /\ pc \notin SchemaStage) => pc = "copy_parse"
            /\ (pc' \in LoadingStage /\ pc \notin LoadingStage) => pc \in SchemaStage
            /\ (pc' = "rt_after" /\ pc # "rt_after" /\ csv.records > 0) =>
                    pc = "copy_count"
            /\ (pc' = "copy_pool" /\ pc # "copy_pool") =>
                    /\ attempts < cfg.retryCount
                    /\ ~Landed(lastResult)]_vars

\* ------------------------------------------------------------------------
\* C22.  insertDataInBatches splits the records into consecutive batches of
\* at most batchSize records in parsed-input order.  The batches are
\* submitted one at a time in increasing index order: batch k holds the
\* records from position (k - 1) * batchSize + 1 on, is full unless it is
\* the last one, and ends at the last record at most, so no record is in
\* two batches, reordered or submitted twice; a loop that runs to its end
\* has submitted every record.
\* ------------------------------------------------------------------------
C22_BatchesInInputOrder ==
    /\ \A k \in 1..Len(log) :
          /\ log[k].batch = k
          /\ log[k].first = (k - 1) * BatchSize + 1
          /\ log[k].first <= log[k].last
          /\ log[k].last <= data
          /\ log[k].last - log[k].first + 1 <= BatchSize
          /\ log[k].last - log[k].first + 1 = BatchSize \/ log[k].last = data
          /\ k > 1 => log[k].first = log[k - 1].last + 1
    /\ (pc \in {"insert", "rep_result", "done"} /\ Has(insertResult, "inserted")
        /\ Outcomes(log) \subseteq {"ok", "rejected"}) =>
          (data > 0 => log # <<>> /\ log[Len(log)].last = data)

\* a load of two full batches and a shorter third one has run to its end
C22_Witness ==
    /\ pc = "done"
    /\ data = 2 * BatchSize + 1
    /\ Len(log) = 3
    /\ log[3].first = data
    /\ log[3].last = data

\* ------------------------------------------------------------------------
\* Vocabulary of the claims about the results of the batched load
\* ------------------------------------------------------------------------
\* the loop submitted 10 batches, the destination rejected batch 3 with an
\* error that is not fatal and accepted the other 9, and the result is back
TenBatchesThirdRejected ==
    /\ pc = "done"
    /\ Len(log) = 10
    /\ log[3].outcome = "rejected"
    /\ \A k \in 1..10 : k # 3 => log[k].outcome = "ok"

\* the number of records of batch k
BatchSizeOf(k) == log[k].last - log[k].first + 1

\* ------------------------------------------------------------------------
\* C23.  When a table's records form 10 batches and only batch 3 is
\* rejected, non-fatally, the load result has inserted equal to the total
\* size of the other 9 batches, success = false, partialSuccess = true and
\* an error list with exactly one entry, which references batch 3.
\* ------------------------------------------------------------------------
C23_ThirdOfTenRejected ==
    TenBatchesThirdRejected =>
        /\ ret.inserted = data - BatchSizeOf(3)
        /\ ret.success = FALSE
        /\ ret.partialSuccess = TRUE
        /\ Len(ret.errors) = 1
        /\ ret.errors[1].batch = 3

\* C23 as the code has it: the result is as stated, but with success = true,
\* since no error is fatal and records were inserted.
C23_ThirdOfTenRejectedStillSuccess ==
    TenBatchesThirdRejected =>
        /\ ret.inserted = data - BatchSizeOf(3)
        /\ ret.success = TRUE
        /\ ret.partialSuccess = TRUE
        /\ Len(ret.errors) = 1
        /\ ret.errors[1].batch = 3
        /\ ~ret.errors[1].fatal

\* ten batches, the last of one record, the third rejected
C23_Witness ==
    /\ TenBatchesThirdRejected
    /\ data = 9 * BatchSize + 1
    /\ ret.inserted = 8 * BatchSize + 1

\* the existence check of the batched load has used up its retries and the
\* destination still reports the table missing; the load has returned
RetriesExhausted ==
    /\ cfg.entry = "replicateTable"
    /\ pc = "done"
    /\ hist.checks = VerifyMaxRetries
    /\ ~hist.verified
    /\ ~RestVisible(dest[tableName])

\* ------------------------------------------------------------------------
\* C24.  When the destination table is absent and the existence check has
\* used up its retries, the table's load result has success = false, its
\* errors list contains exactly one entry and that entry is marked fatal,
\* and no batch insert was attempted.
\* ------------------------------------------------------------------------
C24_AbsentTableOneFatalError ==
    RetriesExhausted =>
        /\ ret.success = FALSE
        /\ log = <<>>
        /\ Has(ret, "errors")
        /\ Len(ret.errors) = 1
        /\ ret.errors[1].fatal

\* ------------------------------------------------------------------------
\* C25.  After any streaming load (importCSVWithCOPY) that reports
\* success = true, the number of rows in the destination table equals the
\* number of records parsed from that load's CSV text, including when that
\* number is zero: rows from an earlier load never remain in a table whose
\* latest load reported success.
\* ------------------------------------------------------------------------
C25_SuccessMeansTableHoldsTheLoad ==
    (cfg.entry = "importCSVWithCOPY" /\ pc = "done" /\ ~thrown /\ ret.success) =>
        /\ RowCount(dest[tableName]) = csv.records
        /\ dest[tableName].old = 0

\* ------------------------------------------------------------------------
\* C26.  For every outcome of the batched load, an exception thrown by the
\* destination client in the middle of the batch loop included, the result
\* returned to the caller reports as inserted exactly the number of records
\* in the batches the destination had already accepted.
\* ------------------------------------------------------------------------
C26_ResultReportsWhatLanded ==
    (cfg.entry \in {"replicateTable", "insertDataInBatches"} /\ pc = "done"
     /\ log # <<>>) =>
        /\ Has(ret, "inserted")
        /\ ret.inserted = AcceptedSum(log)

\* ------------------------------------------------------------------------
\* Vocabulary of the claim about the results of a run
\* ------------------------------------------------------------------------
\* the sum of inserted over a list of results (a result without the field
\* counts as 0)
RECURSIVE InsertedSum(_)
InsertedSum(l) ==
    IF l = <<>> THEN 0
    ELSE (IF Has(Head(l), "inserted") THEN Head(l).inserted ELSE 0)
         + InsertedSum(Tail(l))

\* the tables of a list of results
TablesOf(l) == {l[k].tableName : k \in 1..Len(l)}

\* results holds every input table once, in success exactly when its result
\* reports success or partialSuccess, and totalRecords adds up
EveryTableOnce(r) ==
    /\ Len(r.success) + Len(r.failed) = cfg.tables
    /\ TablesOf(r.success) \cup TablesOf(r.failed) = 1..cfg.tables
    /\ \A k \in 1..Len(r.success) :
          (Has(r.success[k], "success") /\ r.success[k].success = TRUE)
          \/ (Has(r.success[k], "partialSuccess")
              /\ r.success[k].partialSuccess = TRUE)
    /\ \A k \in 1..Len(r.failed) :
          /\ r.failed[k].success = FALSE
          /\ Has(r.failed[k], "partialSuccess") => r.failed[k].partialSuccess = FALSE
    /\ r.totalRecords = InsertedSum(r.success)

C28_TablesKeepApart ==
    (cfg.entry = "replicateTables" /\ pc = "done" /\ Has(cfg, "names")) =>
        /\ \A j, k \in 1..Len(log) :
              log[j].cleanTableName = log[k].cleanTableName => j = k
        /\ \A k \in 1..Len(cfg.names) :
              \E t \in DOMAIN dest : dest[t] = cfg.names[k]

\* ------------------------------------------------------------------------
\* Vocabulary of the claim about overlapping runs
\* ------------------------------------------------------------------------
\* the positions of the log where a load sent a statement on its client
HeldAt == {k \in 1..Len(log) : log[k].op \in HeldOps}

\* ------------------------------------------------------------------------
\* C29.  When the scheduled run and a manually triggered run overlap in one
\* process, at most one streaming load holds a client of the pool at any
\* time.  The statements one load sends on its client (existence check,
\* truncate, drop, create, copy, row count) are never interleaved with
\* those of the other load, and the row count a load reports as inserted is
\* the number of records of its own transfer.
\* ------------------------------------------------------------------------
C29_OneLoadHoldsTheConnection ==
    /\ Cardinality(client) <= 1
    /\ \A j, k \in HeldAt :
          (j < k /\ log[j].load = log[k].load) =>
              \A m \in HeldAt : (j < m /\ m < k) => log[m].load = log[j].load
    /\ \A p \in Loads :
          (pc[p] = "done" /\ Has(ret[p], "inserted")) =>
              ret[p].inserted = cfg.loads[p].records

\* both runs loaded the same table: the manual run started while the
\* scheduled run was sending its statements, and sent its own after the
\* scheduled run's row count
C29_Witness ==
    /\ TableOf("scheduled") = TableOf("manual")
    /\ \A p \in Loads : pc[p] = "done" /\ Truthy(ret[p], "success")
                        /\ Has(ret[p], "inserted")
    /\ \E j, k, m \in 1..Len(log) :
          /\ j < k /\ k < m
          /\ log[j] = [load |-> "scheduled", op |-> "truncate"]
          /\ log[k] = [load |-> "manual", op |-> "start"]
          /\ log[m] = [load |-> "scheduled", op |-> "count"]
          /\ \E n \in (m + 1)..Len(log) :
                log[n] = [load |-> "manual", op |-> "truncate"]

\* ------------------------------------------------------------------------
\* C30.  After any sequence of startScheduler, stopScheduler and
\* updateSchedulerConfig calls, interleaved in any way with the start and
\* the completion of scheduled runs, the scheduler state is consistent:
\* isRunning is true exactly when a cron task handle is held, and then one
\* task is scheduled and otherwise none; a startScheduler call while
\* running creates no task and returns false; and nextRun is non-null only
\* while isRunning is true.
\* ------------------------------------------------------------------------
C30_SchedulerStateConsistent ==
    /\ schedulerState.isRunning <=> schedulerState.task # Null
    /\ Cardinality(cronTasks) = IF schedulerState.isRunning THEN 1 ELSE 0
    /\ (Has(ret, "call") /\ ret.call = "startScheduler" /\ ret.wasRunning) =>
          ret.created = 0 /\ ~thrown /\ ret.value = FALSE
    /\ schedulerState.nextRun # Null => schedulerState.isRunning

====
